---- MODULE Spec2Model ----
(***************************************************************************)
(* Model of the chessgame cog: the match store (per-channel "games" dict   *)
(* of the key/value config), the Game wrapper around the rule library's    *)
(* board, the player commands (start, move, draw claim) and the scoreboard *)
(* ledger.  Every command handler is a coroutine; it is split at its       *)
(* awaits on the config backend, so that handlers of several commands can  *)
(* interleave exactly where the event loop lets them.                      *)
(*                                                                         *)
(* The rule library (python-chess) is an external collaborator: the flags  *)
(* of the position reached by a push (check, no legal move, variant end,   *)
(* automatic draws, claimable draws) are chosen by the library and are     *)
(* stored with the board, so every query on one position is a function of  *)
(* that position.                                                          *)
(***************************************************************************)
EXTENDS Integers, Sequences, FiniteSets, TLC

VARIABLES
    games,        \* config.channel(ch).games: name -> pickled Game
    scoreboard,   \* config.guild(g).scoreboard: str(player) -> score record
    tasks,        \* in-flight command handlers: position and locals
    reply,        \* the last message in the channel: a handler's answer, or
                  \* blank when a command came after it
    started,      \* number of Game objects constructed by _start_game and of
                  \* score adjustments taken from the owner so far
    limits,       \* what the run allows: handlers in flight, starts, stored moves
    _guilds,      \* Chess._guilds[guild][channel] of the pickle-file cog:
                  \* name -> Game object in memory
    schema_version,  \* config.schema_version: the persisted schema version
    startup,      \* the StartUp object: _ready, _ready_raised and the
                  \* position and locals of its initialize task
    other_games   \* config.channel(other).games: the games dict of a second
                  \* channel of the guild, where no command is typed

vars == <<games, scoreboard, tasks, reply, started, limits, _guilds,
          schema_version, startup, other_games>>

----------------------------------------------------------------------------
(* Bounds *)

MaxTasks == 2       \* handlers the event loop interleaves
MaxMoves == 2       \* cap on the moves held by the stored matches together
MaxStarts == 1      \* cap on the matches started, one command at a time
MaxConcStarts == 1  \* cap on the matches started, interleaved handlers
MaxNames == 3       \* cap on the matches started when names are studied
MaxNameMoves == 1   \* cap on the stored moves when names are studied
MaxIncrements == 2  \* cap on the owner's increments when scores are studied
MaxDictStarts == 2  \* cap on the matches started through the one-value store
MaxChessStarts == 1 \* cap on the matches started in the in-memory cog
MaxChessMoves == 1  \* cap on the moves of the matches of the in-memory cog together
MaxBootOps == 1     \* cap on starts and owner increments after the cog is loaded
MaxLedgerMoves == 1 \* cap on the stored moves when scores are studied
MaxLookupMoves == 1 \* cap on the stored moves when lookups by name are studied
MaxPromptStarts == 1 \* cap on the matches started when prompts are studied
MaxRaceStarts == 2  \* cap on the matches started by interleaved starts
MaxReuseStarts == 1 \* cap on the matches started while a prompt is open
MaxCloseStarts == 1 \* cap on the matches started when closes are studied

TaskIds == 1..MaxTasks

----------------------------------------------------------------------------
(* Identities *)

\* discord ids of the members that issue commands; 3 never plays
Actors == {1, 2, 3}
\* ctx.author of a start is member 1; the invited player is 1 (self-play) or 2
StartAuthors == {1}
StartOthers == {1, 2}

\* Python None for an Optional[int] id; also the only falsy id
None == 0

\* a player argument is either a bare id or a discord.Member object
PlayerId(i) == [kind |-> "id", id |-> i]
\* ctx.guild.get_member(id)
get_member(i) == [kind |-> "member", id |-> i]

\* discord.Member.__str__ is the account name, int.__str__ the decimal digits
MemberName(i) == "member" \o ToString(i)
str(p) == IF p.kind = "id" THEN ToString(p.id) ELSE MemberName(p.id)

\* variant of PyEq: no two player arguments are equal
PyEq_never(p, q) == FALSE

\* int == int, and discord.Member.__eq__ (same id)
PyEq(p, q) == p.id = q.id

----------------------------------------------------------------------------
(* Rule library: chess.Board and chess.variant *)

WHITE == TRUE
BLACK == FALSE

\* move texts a user may type; "Zz9" parses to no move
SAN == {"e4", "Zz9"}
ParseableSAN == {"e4"}

\* chess.variant.find_variant: name or alias, case-insensitive -> aliases[0]
VariantInputs == {"", "atomic", "bogus"}
\* variant of KnownVariant: find_variant finds a class for every name
KnownVariant_any(name) == TRUE
KnownVariant(name) == name \in {"Standard", "standard", "Atomic", "atomic"}
FirstAlias(name) == IF name \in {"Standard", "standard"} THEN "Standard" ELSE "Atomic"

VariantEnds == {"none", "loss", "win", "draw"}

\* what the library answers about the position a push leads to: standard
\* chess has no variant end, 150 quiet half-moves include 100, five
\* occurrences of a position include three
PositionFlags(variant) ==
    {f \in [check : BOOLEAN, nolegal : BOOLEAN,
            variant_end : IF variant = "Standard" THEN {"none"} ELSE VariantEnds,
            seventyfive : BOOLEAN, fivefold : BOOLEAN, insufficient : BOOLEAN,
            claim50 : BOOLEAN, claim3 : BOOLEAN] :
        /\ f.seventyfive => f.claim50
        /\ f.fivefold => f.claim3}

\* the starting position: nothing holds, white to move, empty move stack
NewBoard(variant) ==
    [variant |-> variant, turn |-> WHITE, move_stack |-> << >>,
     checkmate |-> FALSE, stalemate |-> FALSE, variant_end |-> "none",
     seventyfive |-> FALSE, fivefold |-> FALSE, insufficient |-> FALSE,
     claim50 |-> FALSE, claim3 |-> FALSE]

\* variant of LegalSAN: every text is taken for a legal move
LegalSAN_unparsed(board) == SAN

\* Board.parse_san succeeds: the text names a legal move of the position
LegalSAN(board) ==
    IF board.checkmate \/ board.stalemate THEN {} ELSE ParseableSAN

\* Board.push: the move goes on the stack, the turn flips, and the position
\* reached is mate or stalemate when it leaves no legal move, with or without
\* check.  Whether a position with legal moves is check only words the answer
\* to the move and is not kept with the position.
Push(board, move, f) ==
    [variant |-> board.variant, turn |-> ~board.turn,
     move_stack |-> Append(board.move_stack, move),
     checkmate |-> f.check /\ f.nolegal,
     stalemate |-> ~f.check /\ f.nolegal /\ f.variant_end = "none",
     variant_end |-> f.variant_end,
     seventyfive |-> f.seventyfive, fivefold |-> f.fivefold,
     insufficient |-> f.insufficient,
     claim50 |-> f.claim50, claim3 |-> f.claim3]

is_variant_loss(board) == board.variant_end = "loss"
is_variant_win(board) == board.variant_end = "win"
is_variant_draw(board) == board.variant_end = "draw"
is_checkmate(board) == board.checkmate
is_stalemate(board) == board.stalemate
is_seventyfive_moves(board) == board.seventyfive
is_fivefold_repetition(board) == board.fivefold
is_insufficient_material(board) == board.insufficient

----------------------------------------------------------------------------
(* game.py: class Game and MoveResult *)

\* Game.__init__ (the variant is known)
NewGame(black, white, variant_name) ==
    [player_black_id |-> black, player_white_id |-> white,
     board |-> NewBoard(FirstAlias(IF variant_name = "" THEN "Standard" ELSE variant_name))]

\* stands for "no game loaded" in a handler's locals
NoGame == NewGame(None, None, "")

\* Game.total_moves
total_moves(game) == Len(game.board.move_stack)

\* variant of get_order: the perspective flag is read the wrong way round
get_order_negated(game, previous) ==
    LET is_white_turn == IF previous THEN game.board.turn = WHITE
                         ELSE ~(game.board.turn = WHITE)
    IN  IF is_white_turn
        THEN [color |-> "White", turn |-> game.player_white_id, next |-> game.player_black_id]
        ELSE [color |-> "Black", turn |-> game.player_black_id, next |-> game.player_white_id]

\* Game.get_order: colour, id whose turn it is, id of the other side
get_order(game, previous) ==
    LET is_white_turn == IF previous THEN ~(game.board.turn = WHITE)
                         ELSE game.board.turn = WHITE
    IN  IF is_white_turn
        THEN [color |-> "White", turn |-> game.player_white_id, next |-> game.player_black_id]
        ELSE [color |-> "Black", turn |-> game.player_black_id, next |-> game.player_white_id]

can_claim_fifty_moves(game) == game.board.claim50
can_claim_threefold_repetition(game) == game.board.claim3

MoveResult(over, kind, winner, loser) ==
    [is_game_over |-> over, message |-> kind, winner_id |-> winner, loser_id |-> loser]

NoResult == MoveResult(FALSE, "", None, None)

\* variant of Classify: the mated side is reported as the winner
Classify_mated_wins(game, board, order, is_check) ==
    IF is_variant_loss(board)
        THEN MoveResult(TRUE, "variant_loss", game.player_black_id, game.player_white_id)
    ELSE IF is_variant_win(board)
        THEN MoveResult(TRUE, "variant_win", game.player_white_id, game.player_black_id)
    ELSE IF is_variant_draw(board)
        THEN MoveResult(TRUE, "variant_draw", None, None)
    ELSE IF is_checkmate(board)
        THEN MoveResult(TRUE, "checkmate", order.next, order.turn)
    ELSE IF is_seventyfive_moves(board)
        THEN MoveResult(TRUE, "seventyfive", None, None)
    ELSE IF is_fivefold_repetition(board)
        THEN MoveResult(TRUE, "fivefold", None, None)
    ELSE IF is_insufficient_material(board)
        THEN MoveResult(TRUE, "insufficient", None, None)
    ELSE IF is_stalemate(board)
        THEN MoveResult(TRUE, "stalemate", None, None)
    ELSE IF is_check
        THEN MoveResult(FALSE, "check", None, None)
    ELSE MoveResult(FALSE, "next", None, None)

\* variant of Classify: the automatic draws are tested before checkmate
Classify_draws_first(game, board, order, is_check) ==
    IF is_variant_loss(board)
        THEN MoveResult(TRUE, "variant_loss", game.player_black_id, game.player_white_id)
    ELSE IF is_variant_win(board)
        THEN MoveResult(TRUE, "variant_win", game.player_white_id, game.player_black_id)
    ELSE IF is_variant_draw(board)
        THEN MoveResult(TRUE, "variant_draw", None, None)
    ELSE IF is_seventyfive_moves(board)
        THEN MoveResult(TRUE, "seventyfive", None, None)
    ELSE IF is_fivefold_repetition(board)
        THEN MoveResult(TRUE, "fivefold", None, None)
    ELSE IF is_insufficient_material(board)
        THEN MoveResult(TRUE, "insufficient", None, None)
    ELSE IF is_checkmate(board)
        THEN MoveResult(TRUE, "checkmate", order.turn, order.next)
    ELSE IF is_stalemate(board)
        THEN MoveResult(TRUE, "stalemate", None, None)
    ELSE IF is_check
        THEN MoveResult(FALSE, "check", None, None)
    ELSE MoveResult(FALSE, "next", None, None)

\* variant of Classify: stalemate is tested before the automatic draws
Classify_stalemate_first(game, board, order, is_check) ==
    IF is_variant_loss(board)
        THEN MoveResult(TRUE, "variant_loss", game.player_black_id, game.player_white_id)
    ELSE IF is_variant_win(board)
        THEN MoveResult(TRUE, "variant_win", game.player_white_id, game.player_black_id)
    ELSE IF is_variant_draw(board)
        THEN MoveResult(TRUE, "variant_draw", None, None)
    ELSE IF is_checkmate(board)
        THEN MoveResult(TRUE, "checkmate", order.turn, order.next)
    ELSE IF is_stalemate(board)
        THEN MoveResult(TRUE, "stalemate", None, None)
    ELSE IF is_seventyfive_moves(board)
        THEN MoveResult(TRUE, "seventyfive", None, None)
    ELSE IF is_fivefold_repetition(board)
        THEN MoveResult(TRUE, "fivefold", None, None)
    ELSE IF is_insufficient_material(board)
        THEN MoveResult(TRUE, "insufficient", None, None)
    ELSE IF is_check
        THEN MoveResult(FALSE, "check", None, None)
    ELSE MoveResult(FALSE, "next", None, None)

\* Game.move_piece after push_san succeeded; board is the position pushed to,
\* order is get_order(False) taken before the push, is_check the library's
\* answer for that position
Classify(game, board, order, is_check) ==
    IF is_variant_loss(board)
        THEN MoveResult(TRUE, "variant_loss", game.player_black_id, game.player_white_id)
    ELSE IF is_variant_win(board)
        THEN MoveResult(TRUE, "variant_win", game.player_white_id, game.player_black_id)
    ELSE IF is_variant_draw(board)
        THEN MoveResult(TRUE, "variant_draw", None, None)
    ELSE IF is_checkmate(board)
        THEN MoveResult(TRUE, "checkmate", order.turn, order.next)
    ELSE IF is_seventyfive_moves(board)
        THEN MoveResult(TRUE, "seventyfive", None, None)
    ELSE IF is_fivefold_repetition(board)
        THEN MoveResult(TRUE, "fivefold", None, None)
    ELSE IF is_insufficient_material(board)
        THEN MoveResult(TRUE, "insufficient", None, None)
    ELSE IF is_stalemate(board)
        THEN MoveResult(TRUE, "stalemate", None, None)
    ELSE IF is_check
        THEN MoveResult(FALSE, "check", None, None)
    ELSE MoveResult(FALSE, "next", None, None)

\* Game.move_piece(move) for a legal move: the game after it and its result
move_piece(game, move, f) ==
    LET order == get_order(game, FALSE)
        board == Push(game.board, move, f)
    IN  [game |-> [game EXCEPT !.board = board],
         result |-> Classify(game, board, order, f.check)]

----------------------------------------------------------------------------
(* util.py: the pickled record kept under a match name *)

jsonpickle_encode(game) == [py_object |-> "chessgame.game.Game", state |-> game]
jsonpickle_decode(json) == json.state

\* games.set_raw(name, value) and games.clear_raw(name) on the dict
set_raw(dict, key, value) ==
    [k \in DOMAIN dict \cup {key} |-> IF k = key THEN value ELSE dict[k]]
clear_raw(dict, key) == [k \in DOMAIN dict \ {key} |-> dict[k]]

EmptyDict == [k \in {} |-> 0]

\* variant of UniqueSuffix: the name is tested once, the first suffix is taken
UniqueSuffix_once(game_name, dict, count, suffix) ==
    IF (game_name \o suffix) \in DOMAIN dict THEN ToString(count + 1) ELSE suffix

\* _start_game: first unused name among name, name1, name2, ...
RECURSIVE UniqueSuffix(_, _, _, _)
UniqueSuffix(game_name, dict, count, suffix) ==
    IF (game_name \o suffix) \in DOMAIN dict
    THEN UniqueSuffix(game_name, dict, count + 1, ToString(count + 1))
    ELSE suffix

UniqueName(requested, dict) ==
    LET game_name == IF requested = "" THEN "game" ELSE requested
    IN  game_name \o UniqueSuffix(game_name, dict, 0, "")

----------------------------------------------------------------------------
(* Scoreboard ledger *)

DEFAULT_ELO == 1200
k_factor == 32

\* round(k_factor * (1 - 1 / (1 + 10 ** ((other - own) / 400)))) drops by one
\* at each of these values of own - other
EloSteps ==
    <<-719, -523, -428, -364, -314, -273, -237, -205, -176, -149, -124, -100,
      -77, -54, -32, -10, 11, 33, 55, 78, 101, 125, 150, 177, 206, 238, 274,
      315, 365, 429, 524, 720>>

\* round(k_factor * (score - expected)), the score given in half points
EloDelta(own, other, halves) ==
    LET passed == Cardinality({i \in DOMAIN EloSteps : EloSteps[i] <= own - other})
    IN  (k_factor - passed) - (k_factor \div 2) * (2 - halves)

\* scoreboard.get_raw(key, "elo", default=DEFAULT_ELO)
get_elo(sb, key) == IF key \in DOMAIN sb THEN sb[key].elo ELSE DEFAULT_ELO

\* variant of calculate_elo_offset: the second player is given the first one's offset
calculate_elo_offset_same(elo_1, elo_2, halves_1) ==
    <<EloDelta(elo_1, elo_2, halves_1), EloDelta(elo_1, elo_2, halves_1)>>

\* _calculate_elo_offset on the two ratings read
calculate_elo_offset(elo_1, elo_2, halves_1) ==
    <<EloDelta(elo_1, elo_2, halves_1), EloDelta(elo_2, elo_1, 2 - halves_1)>>

\* variant of increment_score: the record is always written as a new one
increment_score_fresh(sb, player, elo, wins, losses, ties) ==
    set_raw(sb, str(player), [elo |-> DEFAULT_ELO + elo, wins |-> wins,
                              losses |-> losses, ties |-> ties])

\* _increment_score: read-modify-write of one player's record
increment_score(sb, player, elo, wins, losses, ties) ==
    LET player_id == str(player)
        player_score ==
            IF player_id \in DOMAIN sb
            THEN [elo |-> sb[player_id].elo + elo,
                  wins |-> sb[player_id].wins + wins,
                  losses |-> sb[player_id].losses + losses,
                  ties |-> sb[player_id].ties + ties]
            ELSE [elo |-> DEFAULT_ELO + elo, wins |-> wins,
                  losses |-> losses, ties |-> ties]
    IN  set_raw(sb, player_id, player_score)

----------------------------------------------------------------------------
(* startup.py and migrate.py: the one-shot initialize task *)

LATEST_SCHEMA_VERSION == 1

\* migrations = [self._run_migration_v1]
migrations == <<"_run_migration_v1">>

\* the one config value that held all matches of a channel before version 1:
\* jsonpickle.encode of the whole dict of Game objects
jsonpickle_encode_dict(dict) ==
    [py_dict |-> [k \in DOMAIN dict |-> jsonpickle_encode(dict[k])]]
jsonpickle_decode_dict(json) ==
    [k \in DOMAIN json.py_dict |-> jsonpickle_decode(json.py_dict[k])]

\* jsonpickle.decode raises on a value that is not one encoded string
Decodable(value) == "py_dict" \in DOMAIN value

\* _run_migration_v1 on the games value of a channel: every Game is encoded
\* on its own under its name
run_migration_v1(value) ==
    LET old_games == jsonpickle_decode_dict(value)
    IN  [key \in DOMAIN old_games |-> jsonpickle_encode(old_games[key])]

\* variant of StartUp: the event is created set
StartUp_set ==
    [_ready |-> TRUE, _ready_raised |-> FALSE, pc |-> "none", schema_version |-> 0,
     log |-> <<>>]

\* StartUp.__init__: _ready is a new Event, _init_task is None
StartUp ==
    [_ready |-> FALSE, _ready_raised |-> FALSE, pc |-> "none", schema_version |-> 0,
     log |-> <<>>]

\* create_init_task: the initialize task is scheduled with its done callback
create_init_task(su) == [su EXCEPT !.pc = "created"]

\* the StartUp object once initialize and its done callback ran without error
StartedUp ==
    [_ready |-> TRUE, _ready_raised |-> FALSE, pc |-> "done",
     schema_version |-> LATEST_SCHEMA_VERSION, log |-> <<>>]

\* while schema_version < LATEST_SCHEMA_VERSION: schema_version += 1, and
\* LOGGER.info("Running migration_v%s", schema_version)
LoopFrom(su, version) ==
    IF version < LATEST_SCHEMA_VERSION
    THEN [su EXCEPT !.pc = "migration", !.schema_version = version + 1,
                    !.log = Append(su.log, version + 1)]
    ELSE [su EXCEPT !.pc = "return", !.schema_version = version]

\* schema_version = await self._config.schema_version() and the tests on it
MigrateRead ==
    /\ startup.pc = "created"
    /\ startup' = LoopFrom(startup, schema_version)
    /\ UNCHANGED <<games, scoreboard, tasks, reply, started, limits, _guilds,
                   schema_version, other_games>>

\* await migrations[schema_version - 1]()
MigrateRun ==
    /\ startup.pc = "migration"
    /\ IF startup.schema_version \notin DOMAIN migrations
       THEN startup' = [startup EXCEPT !.pc = "raised"] /\ games' = games
       ELSE IF games = EmptyDict
       THEN startup' = [startup EXCEPT !.pc = "set"] /\ games' = games
       ELSE IF Decodable(games)
       THEN startup' = [startup EXCEPT !.pc = "set"] /\ games' = run_migration_v1(games)
       ELSE startup' = [startup EXCEPT !.pc = "raised"] /\ games' = games
    /\ UNCHANGED <<scoreboard, tasks, reply, started, limits, _guilds, schema_version, other_games>>

\* variant of MigrateSet: the version written is one too high
MigrateSet_next ==
    /\ startup.pc = "set"
    /\ schema_version' = startup.schema_version + 1
    /\ startup' = LoopFrom(startup, startup.schema_version)
    /\ UNCHANGED <<games, scoreboard, tasks, reply, started, limits, _guilds, other_games>>

\* await self._config.schema_version.set(schema_version), then the loop test
MigrateSet ==
    /\ startup.pc = "set"
    /\ schema_version' = startup.schema_version
    /\ startup' = LoopFrom(startup, startup.schema_version)
    /\ UNCHANGED <<games, scoreboard, tasks, reply, started, limits, _guilds, other_games>>

\* initialize: self._ready.set() after _run_migrations returned
InitializeReady ==
    /\ startup.pc = "return"
    /\ startup' = [startup EXCEPT !.pc = "finished", !._ready = TRUE]
    /\ UNCHANGED <<games, scoreboard, tasks, reply, started, limits, _guilds,
                   schema_version, other_games>>

\* variant of _done_callback: the exception is logged and the flag is left
DoneCallback_unflagged ==
    /\ startup.pc \in {"finished", "raised"}
    /\ startup' = [startup EXCEPT !.pc = "done", !._ready = TRUE]
    /\ UNCHANGED <<games, scoreboard, tasks, reply, started, limits, _guilds,
                   schema_version, other_games>>

\* _done_callback(task)
DoneCallback ==
    /\ startup.pc \in {"finished", "raised"}
    /\ startup' = [startup EXCEPT !.pc = "done", !._ready = TRUE,
                                  !._ready_raised = (startup.pc = "raised")]
    /\ UNCHANGED <<games, scoreboard, tasks, reply, started, limits, _guilds,
                   schema_version, other_games>>

----------------------------------------------------------------------------
(* Command handlers: locals of a coroutine between its awaits *)

NoPlayer == PlayerId(None)

IdleTask ==
    [pc |-> "idle", op |-> "", name |-> "", actor |-> None, arg |-> "",
     game |-> NoGame, result |-> NoResult,
     is_draw |-> FALSE, p1 |-> NoPlayer, p2 |-> NoPlayer,
     elo1 |-> 0, off1 |-> 0, off2 |-> 0,
     wins |-> 0, losses |-> 0, ties |-> 0,
     games |-> EmptyDict, users |-> {}]

Request(op, name, actor, arg) ==
    [IdleTask EXCEPT !.op = op, !.name = name, !.actor = actor, !.arg = arg]

\* what a handler answered: the command, the kind of answer and the id of the
\* member the answer mentions as the one to move (None when it mentions nobody)
Reply(op, resp) == [op |-> op, resp |-> resp, mention |-> None]

\* a command that is not answered at once is the last message itself
NoReply == Reply("", "")

\* the readiness barrier in front of every command: it waits for _ready and
\* goes on only when the initialization did not fail
ReadinessGate == startup._ready /\ ~startup._ready_raised

\* a command that finds the initialization failed is rejected
Rejected ==
    /\ startup._ready /\ startup._ready_raised
    /\ reply' = Reply("", "rejected")
    /\ UNCHANGED <<games, scoreboard, tasks, started, limits, _guilds,
                   schema_version, startup, other_games>>

\* a command is taken up in slot t: the lowest free slot the scheduler allows
CanEnter(t) ==
    /\ ReadinessGate
    /\ t <= limits.inflight
    /\ tasks[t].pc = "idle"
    /\ \A u \in 1..(t - 1) : tasks[u].pc # "idle"

\* names a user may type: the stored ones and one that is never stored
NameInputs == DOMAIN games \cup {"nosuch"}

\* moves held by the stored matches together
RECURSIVE StoredMoves(_)
StoredMoves(dict) ==
    IF DOMAIN dict = {} THEN 0
    ELSE LET k == CHOOSE k \in DOMAIN dict : TRUE
         IN  Len(dict[k].state.board.move_stack) + StoredMoves(clear_raw(dict, k))

----------------------------------------------------------------------------
(* PlayerCommands.move_piece *)

\* the members of the match in turn order: get_order(False), ids to members
TurnMembers(game) ==
    LET player_white == get_member(game.player_white_id)
        player_black == get_member(game.player_black_id)
        order == get_order(game, FALSE)
    IN  IF order.turn = game.player_white_id
        THEN [player_turn |-> player_white, player_next |-> player_black]
        ELSE [player_turn |-> player_black, player_next |-> player_white]

\* the branch the handler takes once the match is loaded
MoveBranch(game, actor, move) ==
    LET author == get_member(actor)
        m == TurnMembers(game)
    IN  IF PyEq(m.player_turn, author)
        THEN IF move \notin LegalSAN(game.board) THEN "invalid_move" ELSE "moved"
        ELSE IF PyEq(m.player_next, author) THEN "not_your_turn"
        ELSE "not_a_player"

\* variant of MoveApplied: the match is persisted whatever the outcome
MoveApplied_persisted(task, game, f) ==
    LET mr == move_piece(game, task.arg, f)
    IN  [task EXCEPT !.pc = "move_set", !.game = mr.game, !.result = mr.result]

\* the move is applied: the handler goes on to persist or to finish the match
\* (a finished match's board is only drawn, never stored again)
MoveApplied(task, game, f) ==
    LET m == TurnMembers(game)
        mr == move_piece(game, task.arg, f)
    IN  IF mr.result.is_game_over
        THEN IF mr.result.winner_id # None
             THEN [task EXCEPT !.pc = "finish_clear", !.result = mr.result,
                               !.is_draw = FALSE,
                               !.p1 = PlayerId(mr.result.winner_id),
                               !.p2 = PlayerId(mr.result.loser_id)]
             ELSE [task EXCEPT !.pc = "finish_clear", !.result = mr.result,
                               !.is_draw = TRUE,
                               !.p1 = m.player_turn, !.p2 = m.player_next]
        ELSE [task EXCEPT !.pc = "move_set",
                          !.game = mr.game, !.result = mr.result]

\* the command arrives, the match is read with _get_game and the handler
\* runs to its next await
Move(t, name, actor, move) ==
    /\ CanEnter(t)
    /\ StoredMoves(games) < limits.moves
    /\ IF name \notin DOMAIN games
       THEN /\ reply' = Reply("move", "not_found")
            /\ tasks' = tasks
       ELSE LET game == jsonpickle_decode(games[name])
                branch == MoveBranch(game, actor, move)
            IN  IF branch # "moved"
                THEN /\ reply' = Reply("move", branch)
                     /\ tasks' = tasks
                ELSE /\ reply' = NoReply
                     /\ \E applied \in
                                {MoveApplied(Request("move", name, actor, move), game, f) :
                                    f \in PositionFlags(game.board.variant)} :
                            tasks' = [tasks EXCEPT ![t] = applied]
    /\ UNCHANGED <<games, scoreboard, started, limits, _guilds, schema_version, startup, other_games>>

\* await self._set_game(ctx.channel, game_name, game)
MoveSet(t) ==
    /\ tasks[t].pc = "move_set"
    /\ games' = set_raw(games, tasks[t].name, jsonpickle_encode(tasks[t].game))
    /\ tasks' = [tasks EXCEPT ![t] = IdleTask]
    /\ reply' = Reply("move", "moved")
    /\ UNCHANGED <<scoreboard, started, limits, _guilds, schema_version, startup, other_games>>

----------------------------------------------------------------------------
(* PlayerCommands.claim_draw *)

_fifty_moves == "Fifty moves"
_threefold_repetition == "Threefold repetition"
ClaimInputs == {_fifty_moves, _threefold_repetition, "Stalemate"}

\* variant of ClaimBranch: any claimable draw grants any claim
ClaimBranch_any(game, claim_type) ==
    can_claim_fifty_moves(game) \/ can_claim_threefold_repetition(game)

\* the claim is granted
ClaimBranch(game, claim_type) ==
    \/ _fifty_moves = claim_type /\ can_claim_fifty_moves(game)
    \/ _threefold_repetition = claim_type /\ can_claim_threefold_repetition(game)

Claim(t, name, claim_type) ==
    /\ CanEnter(t)
    /\ IF name \notin DOMAIN games
       THEN /\ reply' = Reply("claim", "not_found")
            /\ tasks' = tasks
       ELSE LET game == jsonpickle_decode(games[name])
            IN  IF ClaimBranch(game, claim_type)
                THEN /\ tasks' = [tasks EXCEPT ![t] =
                            [Request("claim", name, None, claim_type) EXCEPT
                                !.pc = "finish_clear", !.is_draw = TRUE,
                                !.p1 = PlayerId(game.player_black_id),
                                !.p2 = PlayerId(game.player_white_id)]]
                     /\ reply' = NoReply
                ELSE /\ reply' = Reply("claim", "claim_rejected")
                     /\ tasks' = tasks
    /\ UNCHANGED <<games, scoreboard, started, limits, _guilds, schema_version, startup, other_games>>

----------------------------------------------------------------------------
(* PlayerCommands.by_agreement *)

\* what the reaction prompt ends with: pred.result True, False, or the
\* asyncio.TimeoutError of wait_for
Responses == {"yes", "no", "timeout"}

\* variant of by_agreement: the author is not placed among the players
by_agreement_anyone(t, name, actor) ==
    /\ CanEnter(t)
    /\ IF name \notin DOMAIN games
       THEN /\ reply' = Reply("agree", "not_found")
            /\ tasks' = tasks
       ELSE LET game == jsonpickle_decode(games[name])
            IN  /\ tasks' = [tasks EXCEPT ![t] =
                        [Request("agree", name, actor, "") EXCEPT
                            !.pc = "agree_wait", !.is_draw = TRUE,
                            !.p1 = PlayerId(game.player_black_id),
                            !.p2 = PlayerId(game.player_white_id)]]
                /\ reply' = Reply("agree", "offered")
    /\ UNCHANGED <<games, scoreboard, started, limits, _guilds, schema_version, startup, other_games>>

\* the match is read, the author placed, and the prompt sent to the other player
by_agreement(t, name, actor) ==
    /\ CanEnter(t)
    /\ IF name \notin DOMAIN games
       THEN /\ reply' = Reply("agree", "not_found")
            /\ tasks' = tasks
       ELSE LET game == jsonpickle_decode(games[name])
            IN  IF actor # game.player_black_id /\ actor # game.player_white_id
                THEN /\ reply' = Reply("agree", "not_a_player")
                     /\ tasks' = tasks
                ELSE /\ tasks' = [tasks EXCEPT ![t] =
                            [Request("agree", name, actor, "") EXCEPT
                                !.pc = "agree_wait", !.is_draw = TRUE,
                                !.p1 = PlayerId(game.player_black_id),
                                !.p2 = PlayerId(game.player_white_id)]]
                     /\ reply' = Reply("agree", "offered")
    /\ UNCHANGED <<games, scoreboard, started, limits, _guilds, schema_version, startup, other_games>>

\* await ctx.bot.wait_for("reaction_add", check=pred, timeout=30) returns
Respond(t, response) ==
    /\ tasks[t].pc = "agree_wait"
    /\ IF response = "yes"
       THEN /\ tasks' = [tasks EXCEPT ![t].pc = "finish_clear"]
            /\ reply' = NoReply
       ELSE /\ tasks' = [tasks EXCEPT ![t] = IdleTask]
            /\ reply' = Reply("agree", IF response = "no" THEN "declined" ELSE "timed_out")
    /\ UNCHANGED <<games, scoreboard, started, limits, _guilds, schema_version, startup, other_games>>

----------------------------------------------------------------------------
(* PlayerCommands._finish_game *)

\* what the caller answers once _finish_game returned
Finished(op) ==
    Reply(op, IF op = "move" THEN "game_over"
              ELSE IF op = "claim" THEN "claimed" ELSE "agreed")

\* the locals _finish_game still reads after the match is cleared
Rating(task) ==
    [IdleTask EXCEPT !.pc = "finish_elo1", !.op = task.op, !.name = task.name,
                     !.is_draw = task.is_draw, !.p1 = task.p1, !.p2 = task.p2]

\* variant of FinishClear: the match is rated without being cleared first
FinishClear_kept(t) ==
    /\ tasks[t].pc = "finish_clear"
    /\ IF PyEq(tasks[t].p1, tasks[t].p2)
       THEN /\ tasks' = [tasks EXCEPT ![t] = IdleTask]
            /\ reply' = Finished(tasks[t].op)
       ELSE /\ tasks' = [tasks EXCEPT ![t] = Rating(tasks[t])]
            /\ reply' = NoReply
    /\ UNCHANGED <<games, scoreboard, started, limits, _guilds, schema_version, startup, other_games>>

\* await self.config.channel(ctx.channel).games.clear_raw(game_name)
FinishClear(t) ==
    /\ tasks[t].pc = "finish_clear"
    /\ games' = clear_raw(games, tasks[t].name)
    /\ IF PyEq(tasks[t].p1, tasks[t].p2)
       THEN /\ tasks' = [tasks EXCEPT ![t] = IdleTask]
            /\ reply' = Finished(tasks[t].op)
       ELSE /\ tasks' = [tasks EXCEPT ![t] = Rating(tasks[t])]
            /\ reply' = NoReply
    /\ UNCHANGED <<scoreboard, started, limits, _guilds, schema_version, startup, other_games>>

\* _calculate_elo_offset: first get_raw
FinishElo1(t) ==
    /\ tasks[t].pc = "finish_elo1"
    /\ tasks' = [tasks EXCEPT ![t].pc = "finish_elo2",
                              ![t].elo1 = get_elo(scoreboard, str(tasks[t].p1))]
    /\ UNCHANGED <<games, scoreboard, reply, started, limits, _guilds, schema_version, startup, other_games>>

\* _calculate_elo_offset: second get_raw and the two rounded offsets
FinishElo2(t) ==
    /\ tasks[t].pc = "finish_elo2"
    /\ LET offsets == calculate_elo_offset(
                          tasks[t].elo1, get_elo(scoreboard, str(tasks[t].p2)),
                          IF tasks[t].is_draw THEN 1 ELSE 2)
       IN  tasks' = [tasks EXCEPT ![t].pc = "finish_inc1", ![t].elo1 = 0,
                                  ![t].off1 = offsets[1], ![t].off2 = offsets[2]]
    /\ UNCHANGED <<games, scoreboard, reply, started, limits, _guilds, schema_version, startup, other_games>>

\* await self._increment_score(ctx.guild, player_1, ...)
FinishInc1(t) ==
    /\ tasks[t].pc = "finish_inc1"
    /\ scoreboard' =
            IF tasks[t].is_draw
            THEN increment_score(scoreboard, tasks[t].p1, tasks[t].off1, 0, 0, 1)
            ELSE increment_score(scoreboard, tasks[t].p1, tasks[t].off1, 1, 0, 0)
    /\ tasks' = [tasks EXCEPT ![t].pc = "finish_inc2", ![t].off1 = 0]
    /\ UNCHANGED <<games, reply, started, limits, _guilds, schema_version, startup, other_games>>

\* await self._increment_score(ctx.guild, player_2, ...)
FinishInc2(t) ==
    /\ tasks[t].pc = "finish_inc2"
    /\ scoreboard' =
            IF tasks[t].is_draw
            THEN increment_score(scoreboard, tasks[t].p2, tasks[t].off2, 0, 0, 1)
            ELSE increment_score(scoreboard, tasks[t].p2, tasks[t].off2, 0, 1, 0)
    /\ tasks' = [tasks EXCEPT ![t] = IdleTask]
    /\ reply' = Finished(tasks[t].op)
    /\ UNCHANGED <<games, started, limits, _guilds, schema_version, startup, other_games>>

----------------------------------------------------------------------------
(* ScoreboardCommands.increment: the bot owner's command *)

\* members the owner adjusts, and the elo, wins, losses, ties typed
IncrementPlayers == {1, 2}
IncrementInputs == {<<400, 0, 0, 0>>, <<0, -1, 0, 0>>, <<16, 1, 1, 1>>}

\* old_score = await ...scoreboard.get_raw(str(player.id)), or {} on KeyError
increment(t, player, elo, wins, losses, ties) ==
    /\ CanEnter(t)
    /\ started < limits.starts
    /\ started' = started + 1
    /\ tasks' = [tasks EXCEPT ![t] =
            [Request("increment", "", None, "")
                EXCEPT !.pc = "increment_apply", !.p1 = PlayerId(player),
                       !.off1 = elo, !.wins = wins, !.losses = losses, !.ties = ties]]
    /\ reply' = NoReply
    /\ UNCHANGED <<games, scoreboard, limits, _guilds, schema_version, startup, other_games>>

\* await self._increment_score(ctx.guild, player.id, elo, wins, losses, ties)
IncrementApply(t) ==
    /\ tasks[t].pc = "increment_apply"
    /\ scoreboard' = increment_score(scoreboard, tasks[t].p1, tasks[t].off1,
                                     tasks[t].wins, tasks[t].losses, tasks[t].ties)
    /\ tasks' = [tasks EXCEPT ![t].pc = "increment_report"]
    /\ UNCHANGED <<games, reply, started, limits, _guilds, schema_version, startup, other_games>>

\* new_score = await ...scoreboard.get_raw(str(player.id)) and the embed sent
IncrementReport(t) ==
    /\ tasks[t].pc = "increment_report"
    /\ tasks' = [tasks EXCEPT ![t] = IdleTask]
    /\ reply' = IF str(tasks[t].p1) \in DOMAIN scoreboard
                THEN Reply("increment", "updated")
                ELSE Reply("increment", "KeyError")
    /\ UNCHANGED <<games, scoreboard, started, limits, _guilds, schema_version, startup, other_games>>

----------------------------------------------------------------------------
(* Util._start_game *)

\* no name, or a name typed by the user
StartNames == {"", "game"}

\* the games dict is read, the name made unique and the Game constructed
Start(t, black, white, game_name, game_type) ==
    /\ CanEnter(t)
    /\ started < limits.starts
    /\ IF (game_type # "") /\ ~KnownVariant(game_type)
       THEN /\ reply' = Reply("start", "invalid_type")
            /\ UNCHANGED <<tasks, started>>
       ELSE /\ tasks' = [tasks EXCEPT ![t] =
                    [Request("start", UniqueName(game_name, games), black, game_name)
                        EXCEPT !.pc = "start_set",
                               !.game = NewGame(black, white, game_type)]]
            /\ started' = started + 1
            /\ reply' = NoReply
    /\ UNCHANGED <<games, scoreboard, limits, _guilds, schema_version, startup, other_games>>

\* await self._set_game(ctx.channel, game_name, game)
StartSet(t) ==
    /\ tasks[t].pc = "start_set"
    /\ games' = set_raw(games, tasks[t].name, jsonpickle_encode(tasks[t].game))
    /\ tasks' = [tasks EXCEPT ![t] = IdleTask]
    /\ reply' = Reply("start", "started")
    /\ UNCHANGED <<scoreboard, started, limits, _guilds, schema_version, startup, other_games>>

----------------------------------------------------------------------------
(* PlayerCommands.start_game and MainCommands.launch_game: the prompts in  *)
(* front of Util._start_game                                               *)

\* accounts with discord.Member.bot set
Bots == {4}
\* members a start or a launch may name as the other player
Invited == StartOthers \cup Bots

\* the other player is asked, unless it is a bot
start_game(t, author, other_player, game_name, game_type) ==
    /\ CanEnter(t)
    /\ started < limits.starts
    /\ IF other_player \in Bots
       THEN /\ reply' = Reply("start", "is_a_bot")
            /\ tasks' = tasks
       ELSE /\ tasks' = [tasks EXCEPT ![t] =
                    [Request("start", game_name, author, game_type) EXCEPT
                        !.pc = "start_wait",
                        !.p1 = get_member(author), !.p2 = get_member(other_player),
                        !.users = {other_player}]]
            /\ reply' = Reply("start", "asked")
    /\ UNCHANGED <<games, scoreboard, started, limits, _guilds, schema_version, startup, other_games>>

\* await ctx.bot.wait_for("reaction_add", check=pred, timeout=600) returns;
\* on yes the prompt is deleted, otherwise it is edited and the handler ends
StartRespond(t, response) ==
    /\ tasks[t].pc = "start_wait"
    /\ IF response = "yes"
       THEN /\ tasks' = [tasks EXCEPT ![t].pc = "start_game", ![t].users = {}]
            /\ reply' = NoReply
       ELSE /\ tasks' = [tasks EXCEPT ![t] = IdleTask]
            /\ reply' = Reply("start", IF response = "no" THEN "declined" ELSE "timed_out")
    /\ UNCHANGED <<games, scoreboard, started, limits, _guilds, schema_version, startup, other_games>>

\* the owner names both players, and both are asked in one message
launch_game(t, player, other_player, game_name, game_type) ==
    /\ CanEnter(t)
    /\ started < limits.starts
    /\ tasks' = [tasks EXCEPT ![t] =
            [Request("launch", game_name, player, game_type) EXCEPT
                !.pc = "launch_wait",
                !.p1 = get_member(player), !.p2 = get_member(other_player),
                !.users = {player, other_player}]]
    /\ reply' = Reply("launch", "asked")
    /\ UNCHANGED <<games, scoreboard, started, limits, _guilds, schema_version, startup, other_games>>

\* one round of the while users loop: anyone may react, a reaction of somebody
\* who is not asked is passed over, a yes takes the user out of users, a no or
\* the timeout ends the handler
LaunchRespond(t, user, response) ==
    /\ tasks[t].pc = "launch_wait"
    /\ IF response = "timeout"
       THEN /\ tasks' = [tasks EXCEPT ![t] = IdleTask]
            /\ reply' = Reply("launch", "timed_out")
       ELSE IF user \notin tasks[t].users
       THEN UNCHANGED <<tasks, reply>>
       ELSE IF response = "no"
       THEN /\ tasks' = [tasks EXCEPT ![t] = IdleTask]
            /\ reply' = Reply("launch", "declined")
       ELSE IF tasks[t].users = {user}
       THEN /\ tasks' = [tasks EXCEPT ![t].pc = "start_game", ![t].users = {}]
            /\ reply' = NoReply
       ELSE /\ tasks' = [tasks EXCEPT ![t].users = tasks[t].users \ {user}]
            /\ reply' = Reply("launch", "accepted")
    /\ UNCHANGED <<games, scoreboard, started, limits, _guilds, schema_version, startup, other_games>>

\* await self._start_game(ctx, player_black, player_white, game_name, game_type)
\* once the prompt is gone: the games dict is read, the name made unique and
\* the Game constructed
StartGame(t) ==
    /\ tasks[t].pc = "start_game"
    /\ LET black == tasks[t].p1.id
           white == tasks[t].p2.id
           game_name == tasks[t].name
           game_type == tasks[t].arg
       IN  IF (game_type # "") /\ ~KnownVariant(game_type)
           THEN /\ reply' = Reply("start", "invalid_type")
                /\ tasks' = [tasks EXCEPT ![t] = IdleTask]
                /\ started' = started
           ELSE /\ tasks' = [tasks EXCEPT ![t] =
                        [Request("start", UniqueName(game_name, games), black, game_name)
                            EXCEPT !.pc = "start_set",
                                   !.game = NewGame(black, white, game_type)]]
                /\ started' = started + 1
                /\ reply' = NoReply
    /\ UNCHANGED <<games, scoreboard, limits, _guilds, schema_version, startup, other_games>>

----------------------------------------------------------------------------
(* MainCommands.show_game and MainCommands.close *)

\* the match is read with _get_game, whose get_raw raises KeyError for a name
\* that is not stored; the handler catches ValueError
\* the board is posted with the mention of player_turn, the second value of
\* game.get_order(True)
show_game(t, name) ==
    /\ CanEnter(t)
    /\ reply' = IF name \notin DOMAIN games
                THEN Reply("show", "KeyError")
                ELSE [Reply("show", "shown") EXCEPT
                        !.mention = get_order(jsonpickle_decode(games[name]), TRUE).turn]
    /\ UNCHANGED <<games, scoreboard, tasks, started, limits, _guilds,
                   schema_version, startup, other_games>>

\* the channel argument of close: none, the channel the command is typed in,
\* or the second channel
ChannelInputs == {"", "here", "other"}

\* the owner closes a match: 'if channel is None: channel = ctx.channel', then
\* the name is looked up in the games dict of ctx.channel and, unless
\* no_confirmation is given, the owner is asked
close(t, name, channel, no_confirmation) ==
    /\ CanEnter(t)
    /\ IF name \notin DOMAIN games
       THEN /\ reply' = Reply("close", "not_found")
            /\ tasks' = tasks
       ELSE IF no_confirmation
       THEN /\ tasks' = [tasks EXCEPT ![t] =
                    [Request("close", name, None, IF channel = "" THEN "here" ELSE channel)
                        EXCEPT !.pc = "close_clear"]]
            /\ reply' = NoReply
       ELSE /\ tasks' = [tasks EXCEPT ![t] =
                    [Request("close", name, None, IF channel = "" THEN "here" ELSE channel)
                        EXCEPT !.pc = "close_wait"]]
            /\ reply' = Reply("close", "asked")
    /\ UNCHANGED <<games, scoreboard, started, limits, _guilds, schema_version, startup, other_games>>

\* variant of CloseRespond: the match is cleared whatever the answer
CloseRespond_always(t, response) ==
    /\ tasks[t].pc = "close_wait"
    /\ tasks' = [tasks EXCEPT ![t].pc = "close_clear"]
    /\ reply' = NoReply
    /\ UNCHANGED <<games, scoreboard, started, limits, _guilds, schema_version, startup, other_games>>

\* await ctx.bot.wait_for("reaction_add", check=pred, timeout=10) returns; on
\* the timeout the prompt is deleted
CloseRespond(t, response) ==
    /\ tasks[t].pc = "close_wait"
    /\ IF response = "yes"
       THEN /\ tasks' = [tasks EXCEPT ![t].pc = "close_clear"]
            /\ reply' = NoReply
       ELSE /\ tasks' = [tasks EXCEPT ![t] = IdleTask]
            /\ reply' = Reply("close", IF response = "no" THEN "declined" ELSE "timed_out")
    /\ UNCHANGED <<games, scoreboard, started, limits, _guilds, schema_version, startup, other_games>>

\* await self.config.channel(ctx.channel).games.clear_raw(game_name): the
\* local channel is not read
CloseClear(t) ==
    /\ tasks[t].pc = "close_clear"
    /\ games' = clear_raw(games, tasks[t].name)
    /\ tasks' = [tasks EXCEPT ![t] = IdleTask]
    /\ reply' = Reply("close", "closed")
    /\ UNCHANGED <<scoreboard, started, limits, _guilds, schema_version, startup, other_games>>

----------------------------------------------------------------------------
(* ScoreboardCommands.find, clear_all and clear_player *)

\* the player argument of find: a member, or None when none is typed
FindInputs == {None, 1, 2, 3}

\* get_raw(str(player.id)) is evaluated on the argument as it came: on None
\* the attribute access raises AttributeError, and KeyError is what is caught
find(t, author, player) ==
    /\ CanEnter(t)
    /\ reply' = IF player = None
                THEN Reply("find", "AttributeError")
                ELSE IF str(PlayerId(player)) \in DOMAIN scoreboard
                THEN Reply("find", "score")
                ELSE Reply("find", "no_data")
    /\ UNCHANGED <<games, scoreboard, tasks, started, limits, _guilds,
                   schema_version, startup, other_games>>

\* the owner is asked whether the entire scoreboard is to be cleared
clear_all(t) ==
    /\ CanEnter(t)
    /\ tasks' = [tasks EXCEPT ![t] =
            [Request("clear", "", None, "all") EXCEPT !.pc = "clear_wait"]]
    /\ reply' = Reply("clear", "asked")
    /\ UNCHANGED <<games, scoreboard, started, limits, _guilds, schema_version, startup, other_games>>

\* the owner is asked whether the score of one player is to be removed
clear_player(t, player) ==
    /\ CanEnter(t)
    /\ tasks' = [tasks EXCEPT ![t] =
            [Request("clear", "", None, "player") EXCEPT
                !.pc = "clear_wait", !.p1 = PlayerId(player)]]
    /\ reply' = Reply("clear", "asked")
    /\ UNCHANGED <<games, scoreboard, started, limits, _guilds, schema_version, startup, other_games>>

\* await ctx.bot.wait_for("reaction_add", check=pred, timeout=10) returns
ClearRespond(t, response) ==
    /\ tasks[t].pc = "clear_wait"
    /\ IF response = "yes"
       THEN /\ tasks' = [tasks EXCEPT ![t].pc = "clear_apply"]
            /\ reply' = NoReply
       ELSE /\ tasks' = [tasks EXCEPT ![t] = IdleTask]
            /\ reply' = Reply("clear", IF response = "no" THEN "declined" ELSE "timed_out")
    /\ UNCHANGED <<games, scoreboard, started, limits, _guilds, schema_version, startup, other_games>>

\* await ...scoreboard.clear(), or ...scoreboard.clear_raw(str(player_id))
ClearApply(t) ==
    /\ tasks[t].pc = "clear_apply"
    /\ scoreboard' = IF tasks[t].arg = "all" THEN EmptyDict
                     ELSE clear_raw(scoreboard, str(tasks[t].p1))
    /\ tasks' = [tasks EXCEPT ![t] = IdleTask]
    /\ reply' = Reply("clear", "cleared")
    /\ UNCHANGED <<games, started, limits, _guilds, schema_version, startup, other_games>>

----------------------------------------------------------------------------
(* Specifications *)

InitState ==
    /\ games = EmptyDict
    /\ scoreboard = EmptyDict
    /\ tasks = [t \in TaskIds |-> IdleTask]
    /\ reply = NoReply
    /\ started = 0
    /\ _guilds = EmptyDict
    /\ other_games = EmptyDict
    /\ schema_version = LATEST_SCHEMA_VERSION
    /\ startup = StartedUp

Limits(inflight, starts, moves) ==
    [inflight |-> inflight, starts |-> starts, moves |-> moves]

\* operations executed one at a time
Init == InitState /\ limits = Limits(1, MaxStarts, MaxMoves)

\* the event loop interleaves up to MaxTasks handlers
ConcInit == InitState /\ limits = Limits(MaxTasks, MaxConcStarts, MaxMoves)

\* operations executed one at a time, more matches and fewer moves
NameInit == InitState /\ limits = Limits(1, MaxNames, MaxNameMoves)

Next ==
    \/ \E t \in TaskIds, black \in StartAuthors, white \in StartOthers,
          game_name \in StartNames, game_type \in VariantInputs :
            Start(t, black, white, game_name, game_type)
    \/ \E t \in TaskIds : StartSet(t)
    \/ \E t \in TaskIds, name \in NameInputs, actor \in Actors, move \in SAN :
            Move(t, name, actor, move)
    \/ \E t \in TaskIds : MoveSet(t)
    \/ \E t \in TaskIds, name \in NameInputs, claim_type \in ClaimInputs :
            Claim(t, name, claim_type)
    \/ \E t \in TaskIds, name \in NameInputs, actor \in Actors :
            by_agreement(t, name, actor)
    \/ \E t \in TaskIds, response \in Responses : Respond(t, response)
    \/ \E t \in TaskIds : FinishClear(t)
    \/ \E t \in TaskIds : FinishElo1(t)
    \/ \E t \in TaskIds : FinishElo2(t)
    \/ \E t \in TaskIds : FinishInc1(t)
    \/ \E t \in TaskIds : FinishInc2(t)

Spec == Init /\ [][Next]_vars

ConcSpec == ConcInit /\ [][Next]_vars

\* starts, and the commands that take a match out of the store again; every
\* match is started against oneself, so the scoreboard stays out of it
NameNext ==
    \/ \E t \in TaskIds, black \in StartAuthors,
          game_name \in StartNames, game_type \in VariantInputs :
            Start(t, black, black, game_name, game_type)
    \/ \E t \in TaskIds : StartSet(t)
    \/ \E t \in TaskIds, name \in NameInputs, actor \in Actors, move \in SAN :
            Move(t, name, actor, move)
    \/ \E t \in TaskIds : MoveSet(t)
    \/ \E t \in TaskIds, name \in NameInputs, claim_type \in ClaimInputs :
            Claim(t, name, claim_type)
    \/ \E t \in TaskIds : FinishClear(t)

NameSpec == NameInit /\ [][NameNext]_vars

\* a match between members 1 and 2 was started and is stored
OneStarted ==
    /\ games = set_raw(EmptyDict, UniqueName("", EmptyDict),
                       jsonpickle_encode(NewGame(1, 2, "")))
    /\ scoreboard = EmptyDict
    /\ tasks = [t \in TaskIds |-> IdleTask]
    /\ reply = Reply("start", "started")
    /\ started = 1
    /\ _guilds = EmptyDict
    /\ other_games = EmptyDict
    /\ schema_version = LATEST_SCHEMA_VERSION
    /\ startup = StartedUp

\* operations on that match executed one at a time, the owner adjusting
\* scores before, in between and after; the adjustments are capped
LedgerInit == OneStarted /\ limits = Limits(1, 1 + MaxIncrements, MaxLedgerMoves)

LedgerNext ==
    \/ \E t \in TaskIds, name \in NameInputs, actor \in Actors, move \in SAN :
            Move(t, name, actor, move)
    \/ \E t \in TaskIds : MoveSet(t)
    \/ \E t \in TaskIds, name \in NameInputs, claim_type \in ClaimInputs :
            Claim(t, name, claim_type)
    \/ \E t \in TaskIds, name \in NameInputs, actor \in Actors :
            by_agreement(t, name, actor)
    \/ \E t \in TaskIds, response \in Responses : Respond(t, response)
    \/ \E t \in TaskIds : FinishClear(t)
    \/ \E t \in TaskIds : FinishElo1(t)
    \/ \E t \in TaskIds : FinishElo2(t)
    \/ \E t \in TaskIds : FinishInc1(t)
    \/ \E t \in TaskIds : FinishInc2(t)
    \/ \E t \in TaskIds, player \in IncrementPlayers, d \in IncrementInputs :
            increment(t, player, d[1], d[2], d[3], d[4])
    \/ \E t \in TaskIds : IncrementApply(t)
    \/ \E t \in TaskIds : IncrementReport(t)

LedgerSpec == LedgerInit /\ [][LedgerNext]_vars

\* every command that takes the name of a match, on the stored match and on a
\* name that is not stored, one command at a time
LookupInit == OneStarted /\ limits = Limits(1, 1, MaxLookupMoves)

LookupNext ==
    \/ \E t \in TaskIds, name \in NameInputs : show_game(t, name)
    \/ \E t \in TaskIds, name \in NameInputs, actor \in Actors, move \in SAN :
            Move(t, name, actor, move)
    \/ \E t \in TaskIds : MoveSet(t)
    \/ \E t \in TaskIds, name \in NameInputs, claim_type \in ClaimInputs :
            Claim(t, name, claim_type)
    \/ \E t \in TaskIds, name \in NameInputs, actor \in Actors :
            by_agreement(t, name, actor)
    \/ \E t \in TaskIds, response \in Responses : Respond(t, response)
    \/ \E t \in TaskIds, name \in NameInputs, channel \in ChannelInputs,
          no_confirmation \in BOOLEAN :
            close(t, name, channel, no_confirmation)
    \/ \E t \in TaskIds, response \in Responses : CloseRespond(t, response)
    \/ \E t \in TaskIds : CloseClear(t)
    \/ \E t \in TaskIds : FinishClear(t)
    \/ \E t \in TaskIds : FinishElo1(t)
    \/ \E t \in TaskIds : FinishElo2(t)
    \/ \E t \in TaskIds : FinishInc1(t)
    \/ \E t \in TaskIds : FinishInc2(t)

LookupSpec == LookupInit /\ [][LookupNext]_vars

\* what the games value of the channel may hold when the cog is loaded with
\* this version persisted: before version 1 nothing, the one encoded dict, or
\* (the task was stopped between the migration and the write of the version)
\* the migrated dict; from version 1 on the dict of encoded matches
BootGames(version) ==
    LET dict == set_raw(EmptyDict, UniqueName("", EmptyDict), NewGame(1, 2, ""))
        migrated == [k \in DOMAIN dict |-> jsonpickle_encode(dict[k])]
    IN  IF version < 1 THEN {EmptyDict, jsonpickle_encode_dict(dict), migrated}
        ELSE {migrated}

SchemaVersions == 0..(LATEST_SCHEMA_VERSION + 1)

\* the cog is loaded and commands may arrive.  setup calls
\* create_init_task(cog) on a method declared without a parameter; the task is
\* scheduled when the call goes through, and never exists when it raises
BootInit ==
    /\ schema_version \in SchemaVersions
    /\ games \in BootGames(schema_version)
    /\ scoreboard = EmptyDict
    /\ tasks = [t \in TaskIds |-> IdleTask]
    /\ reply = NoReply
    /\ started = 0
    /\ _guilds = EmptyDict
    /\ other_games = EmptyDict
    /\ startup \in {StartUp, create_init_task(StartUp)}
    /\ limits = Limits(1, MaxBootOps, 0)

BootNext ==
    \/ MigrateRead
    \/ MigrateRun
    \/ MigrateSet
    \/ InitializeReady
    \/ DoneCallback
    \/ Rejected
    \/ \E t \in TaskIds, black \in StartAuthors, white \in StartOthers,
          game_name \in StartNames, game_type \in VariantInputs :
            Start(t, black, white, game_name, game_type)
    \/ \E t \in TaskIds : StartSet(t)
    \/ \E t \in TaskIds, name \in NameInputs, claim_type \in ClaimInputs :
            Claim(t, name, claim_type)
    \/ \E t \in TaskIds, name \in NameInputs, actor \in Actors :
            by_agreement(t, name, actor)
    \/ \E t \in TaskIds, response \in Responses : Respond(t, response)
    \/ \E t \in TaskIds : FinishClear(t)
    \/ \E t \in TaskIds : FinishElo1(t)
    \/ \E t \in TaskIds : FinishElo2(t)
    \/ \E t \in TaskIds : FinishInc1(t)
    \/ \E t \in TaskIds : FinishInc2(t)
    \/ \E t \in TaskIds, player \in IncrementPlayers, d \in IncrementInputs :
            increment(t, player, d[1], d[2], d[3], d[4])
    \/ \E t \in TaskIds : IncrementApply(t)
    \/ \E t \in TaskIds : IncrementReport(t)

BootSpec == BootInit /\ [][BootNext]_vars

\* two matches between members 1 and 2 were started and are stored; member 1
\* is unrated, or was raised by the owner before
TwoStarted ==
    /\ LET first == set_raw(EmptyDict, UniqueName("", EmptyDict),
                            jsonpickle_encode(NewGame(1, 2, "")))
       IN  games = set_raw(first, UniqueName("", first),
                           jsonpickle_encode(NewGame(1, 2, "")))
    /\ scoreboard \in {EmptyDict,
                        increment_score(EmptyDict, PlayerId(1), 400, 0, 0, 0)}
    /\ tasks = [t \in TaskIds |-> IdleTask]
    /\ reply = Reply("start", "started")
    /\ started = 2
    /\ _guilds = EmptyDict
    /\ other_games = EmptyDict
    /\ schema_version = LATEST_SCHEMA_VERSION
    /\ startup = StartedUp

\* the event loop interleaves the draw offers on the two matches and the
\* finishes that follow them
RaceInit == TwoStarted /\ limits = Limits(MaxTasks, 2, 0)

RaceNext ==
    \/ \E t \in TaskIds, name \in NameInputs, actor \in Actors :
            by_agreement(t, name, actor)
    \/ \E t \in TaskIds, response \in Responses : Respond(t, response)
    \/ \E t \in TaskIds : FinishClear(t)
    \/ \E t \in TaskIds : FinishElo1(t)
    \/ \E t \in TaskIds : FinishElo2(t)
    \/ \E t \in TaskIds : FinishInc1(t)
    \/ \E t \in TaskIds : FinishInc2(t)

RaceSpec == RaceInit /\ [][RaceNext]_vars

\* the commands that ask before they act, on a stored match, one command
\* at a time: start and launch, close, the draw offer, the two clears of the
\* scoreboard; and find, which reads the scoreboard they change
PromptInit == OneStarted /\ limits = Limits(1, 1 + MaxPromptStarts, 0)

PromptNext ==
    \/ \E t \in TaskIds, author \in StartAuthors, other_player \in Invited,
          game_name \in StartNames, game_type \in VariantInputs :
            start_game(t, author, other_player, game_name, game_type)
    \/ \E t \in TaskIds, response \in Responses : StartRespond(t, response)
    \/ \E t \in TaskIds, player \in StartOthers, other_player \in StartOthers,
          game_name \in StartNames, game_type \in VariantInputs :
            launch_game(t, player, other_player, game_name, game_type)
    \/ \E t \in TaskIds, user \in Actors, response \in Responses :
            LaunchRespond(t, user, response)
    \/ \E t \in TaskIds : StartGame(t)
    \/ \E t \in TaskIds : StartSet(t)
    \/ \E t \in TaskIds, name \in NameInputs, channel \in ChannelInputs,
          no_confirmation \in BOOLEAN :
            close(t, name, channel, no_confirmation)
    \/ \E t \in TaskIds, response \in Responses : CloseRespond(t, response)
    \/ \E t \in TaskIds : CloseClear(t)
    \/ \E t \in TaskIds, name \in NameInputs, actor \in Actors :
            by_agreement(t, name, actor)
    \/ \E t \in TaskIds, response \in Responses : Respond(t, response)
    \/ \E t \in TaskIds : FinishClear(t)
    \/ \E t \in TaskIds : FinishElo1(t)
    \/ \E t \in TaskIds : FinishElo2(t)
    \/ \E t \in TaskIds : FinishInc1(t)
    \/ \E t \in TaskIds : FinishInc2(t)
    \/ \E t \in TaskIds : clear_all(t)
    \/ \E t \in TaskIds, player \in Actors : clear_player(t, player)
    \/ \E t \in TaskIds, response \in Responses : ClearRespond(t, response)
    \/ \E t \in TaskIds : ClearApply(t)
    \/ \E t \in TaskIds, author \in Actors, player \in FindInputs :
            find(t, author, player)

PromptSpec == PromptInit /\ [][PromptNext]_vars

\* the event loop interleaves the handlers of up to MaxTasks starts in one
\* channel
StartRaceInit == InitState /\ limits = Limits(MaxTasks, MaxRaceStarts, 0)

StartRaceNext ==
    \/ \E t \in TaskIds, black \in StartAuthors, white \in StartOthers,
          game_name \in StartNames, game_type \in VariantInputs :
            Start(t, black, white, game_name, game_type)
    \/ \E t \in TaskIds : StartSet(t)

StartRaceSpec == StartRaceInit /\ [][StartRaceNext]_vars

\* a match is stored; draw offers and closes on it interleave with their
\* prompts open, and a start may follow while a prompt is still open
ReuseInit == OneStarted /\ limits = Limits(MaxTasks, 1 + MaxReuseStarts, 0)

ReuseNext ==
    \/ \E t \in TaskIds, black \in StartAuthors, white \in StartOthers,
          game_name \in StartNames, game_type \in VariantInputs :
            Start(t, black, white, game_name, game_type)
    \/ \E t \in TaskIds : StartSet(t)
    \/ \E t \in TaskIds, name \in NameInputs, actor \in Actors :
            by_agreement(t, name, actor)
    \/ \E t \in TaskIds, response \in Responses : Respond(t, response)
    \/ \E t \in TaskIds, name \in NameInputs, channel \in ChannelInputs,
          no_confirmation \in BOOLEAN :
            close(t, name, channel, no_confirmation)
    \/ \E t \in TaskIds, response \in Responses : CloseRespond(t, response)
    \/ \E t \in TaskIds : CloseClear(t)
    \/ \E t \in TaskIds : FinishClear(t)
    \/ \E t \in TaskIds : FinishElo1(t)
    \/ \E t \in TaskIds : FinishElo2(t)
    \/ \E t \in TaskIds : FinishInc1(t)
    \/ \E t \in TaskIds : FinishInc2(t)

ReuseSpec == ReuseInit /\ [][ReuseNext]_vars

\* a match is stored in the channel the commands are typed in, and the second
\* channel holds a match of the same name and one of another name
TwoChannels ==
    /\ games = set_raw(EmptyDict, UniqueName("", EmptyDict),
                       jsonpickle_encode(NewGame(1, 2, "")))
    /\ LET first == set_raw(EmptyDict, UniqueName("", EmptyDict),
                            jsonpickle_encode(NewGame(2, 1, "")))
       IN  other_games = set_raw(first, UniqueName("", first),
                                 jsonpickle_encode(NewGame(1, 1, "")))
    /\ scoreboard = EmptyDict
    /\ tasks = [t \in TaskIds |-> IdleTask]
    /\ reply = Reply("start", "started")
    /\ started = 1
    /\ _guilds = EmptyDict
    /\ schema_version = LATEST_SCHEMA_VERSION
    /\ startup = StartedUp

\* the owner closes matches by name, with and without a channel and a
\* confirmation, one command at a time, between starts and agreed draws
CloseInit == TwoChannels /\ limits = Limits(1, 1 + MaxCloseStarts, 0)

CloseNext ==
    \/ \E t \in TaskIds, name \in NameInputs \cup DOMAIN other_games,
          channel \in ChannelInputs, no_confirmation \in BOOLEAN :
            close(t, name, channel, no_confirmation)
    \/ \E t \in TaskIds, response \in Responses : CloseRespond(t, response)
    \/ \E t \in TaskIds : CloseClear(t)
    \/ \E t \in TaskIds, black \in StartAuthors, white \in StartOthers,
          game_name \in StartNames, game_type \in VariantInputs :
            Start(t, black, white, game_name, game_type)
    \/ \E t \in TaskIds : StartSet(t)
    \/ \E t \in TaskIds, name \in NameInputs, actor \in Actors :
            by_agreement(t, name, actor)
    \/ \E t \in TaskIds, response \in Responses : Respond(t, response)
    \/ \E t \in TaskIds : FinishClear(t)
    \/ \E t \in TaskIds : FinishElo1(t)
    \/ \E t \in TaskIds : FinishElo2(t)
    \/ \E t \in TaskIds : FinishInc1(t)
    \/ \E t \in TaskIds : FinishInc2(t)

CloseSpec == CloseInit /\ [][CloseNext]_vars

----------------------------------------------------------------------------
(* Game.move_piece on its own: one Game object, moved until it is over *)

GameVariants == {"", "atomic"}

\* the Game is held where a handler holds it between load and store
Holding(game) == [Request("move", "game", None, "") EXCEPT !.pc = "move_set", !.game = game]

GameInit ==
    /\ games = EmptyDict
    /\ scoreboard = EmptyDict
    /\ reply = NoReply
    /\ started = 1
    /\ _guilds = EmptyDict
    /\ other_games = EmptyDict
    /\ schema_version = LATEST_SCHEMA_VERSION
    /\ startup = StartedUp
    /\ limits = Limits(1, 1, MaxMoves)
    /\ \E black \in StartAuthors, white \in StartOthers, variant \in GameVariants :
            tasks = [t \in TaskIds |->
                        IF t = 1 THEN Holding(NewGame(black, white, variant)) ELSE IdleTask]

\* the player to move makes a legal move; the Game object is kept as pushed
GameMove(actor, move) ==
    /\ tasks[1].pc = "move_set"
    /\ total_moves(tasks[1].game) < limits.moves
    /\ MoveBranch(tasks[1].game, actor, move) = "moved"
    /\ \E f \in PositionFlags(tasks[1].game.board.variant) :
            tasks' = [tasks EXCEPT ![1] =
                [MoveApplied(Request("move", "game", actor, move), tasks[1].game, f)
                    EXCEPT !.game = move_piece(tasks[1].game, move, f).game]]
    /\ UNCHANGED <<games, scoreboard, reply, started, limits, _guilds, schema_version, startup, other_games>>

GameNext == \E actor \in Actors, move \in SAN : GameMove(actor, move)

GameSpec == GameInit /\ [][GameNext]_vars

----------------------------------------------------------------------------
(* chess_game.py: the cog that keeps its matches in memory, in Chess._guilds. *)
(* Its handlers read and change the Game object before their first await,    *)
(* so each command is one step.                                               *)

\* Game.__init__ of chess_game.py: a standard board and no draw offer
Chess_Game(player_black_id, player_white_id) ==
    [player_black_id |-> player_black_id, player_white_id |-> player_white_id,
     draw_offer_by |-> None, board |-> NewBoard("Standard")]

\* del self._guilds[guild_id][channel_id][game_name]
_remove_game(dict, game_name) == [k \in DOMAIN dict \ {game_name} |-> dict[k]]

\* start_game: first unused name among name, "name - 1", "name - 2", ...
RECURSIVE Chess_suffix(_, _, _, _)
Chess_suffix(game_name, dict, count, suffix) ==
    IF (game_name \o suffix) \in DOMAIN dict
    THEN Chess_suffix(game_name, dict, count + 1, " - " \o ToString(count + 1))
    ELSE suffix

Chess_start_game(black, white, requested) ==
    /\ started < limits.starts
    /\ LET game_name == IF requested = ""
                        THEN MemberName(black) \o " vs " \o MemberName(white)
                        ELSE requested
           stored == game_name \o Chess_suffix(game_name, _guilds, 0, "")
       IN  _guilds' = [k \in DOMAIN _guilds \cup {stored} |->
                        IF k = stored THEN Chess_Game(black, white) ELSE _guilds[k]]
    /\ started' = started + 1
    /\ reply' = Reply("start", "started")
    /\ UNCHANGED <<games, scoreboard, tasks, limits, schema_version, startup, other_games>>

\* move_piece of chess_game.py: check is asked before the draws
Chess_over(f) ==
    \/ f.check /\ f.nolegal
    \/ ~f.check /\ (f.nolegal \/ f.insufficient \/ f.seventyfive \/ f.fivefold)

\* moves played in the matches in memory together
RECURSIVE Chess_moves(_)
Chess_moves(dict) ==
    IF DOMAIN dict = {} THEN 0
    ELSE LET k == CHOOSE k \in DOMAIN dict : TRUE
         IN  Len(dict[k].board.move_stack) + Chess_moves(_remove_game(dict, k))

Chess_move_piece(name, actor, move) ==
    /\ name \in DOMAIN _guilds
    /\ Chess_moves(_guilds) < limits.moves
    /\ LET game == _guilds[name]
           player_turn == IF game.board.turn = WHITE
                          THEN game.player_white_id ELSE game.player_black_id
           player_next == IF game.board.turn = WHITE
                          THEN game.player_black_id ELSE game.player_white_id
       IN  IF player_turn = actor
           THEN IF move \notin LegalSAN(game.board)
                THEN /\ reply' = Reply("move", "invalid_move")
                     /\ _guilds' = _guilds
                ELSE \E f \in PositionFlags("Standard") :
                        IF Chess_over(f)
                        THEN /\ _guilds' = _remove_game(_guilds, name)
                             /\ reply' = Reply("move", "game_over")
                        ELSE /\ _guilds' = [_guilds EXCEPT
                                    ![name].board = Push(game.board, move, f)]
                             /\ reply' = Reply("move", "moved")
           ELSE /\ reply' = Reply("move", IF player_next = actor
                                          THEN "not_your_turn" ELSE "not_a_player")
                /\ _guilds' = _guilds
    /\ UNCHANGED <<games, scoreboard, tasks, started, limits, schema_version, startup, other_games>>

\* variant of offer_draw: a repeated offer records the new offeror
offer_draw_latest(name, actor) ==
    /\ name \in DOMAIN _guilds
    /\ LET game == _guilds[name]
       IN  IF actor # game.player_black_id /\ actor # game.player_white_id
           THEN reply' = Reply("offer", "not_a_player") /\ _guilds' = _guilds
           ELSE /\ _guilds' = [_guilds EXCEPT ![name].draw_offer_by = actor]
                /\ reply' = Reply("offer", "offered")
    /\ UNCHANGED <<games, scoreboard, tasks, started, limits, schema_version, startup, other_games>>

\* by_agreement offer
offer_draw(name, actor) ==
    /\ name \in DOMAIN _guilds
    /\ LET game == _guilds[name]
       IN  IF actor # game.player_black_id /\ actor # game.player_white_id
           THEN reply' = Reply("offer", "not_a_player") /\ _guilds' = _guilds
           ELSE IF game.draw_offer_by # None
           THEN /\ reply' = Reply("offer", IF game.draw_offer_by = actor
                                           THEN "already_offered" ELSE "must_accept")
                /\ _guilds' = _guilds
           ELSE /\ _guilds' = [_guilds EXCEPT ![name].draw_offer_by = actor]
                /\ reply' = Reply("offer", "offered")
    /\ UNCHANGED <<games, scoreboard, tasks, started, limits, schema_version, startup, other_games>>

\* by_agreement accept
accept_draw(name, actor) ==
    /\ name \in DOMAIN _guilds
    /\ LET game == _guilds[name]
           other_player == IF actor = game.player_black_id
                           THEN game.player_white_id ELSE game.player_black_id
       IN  IF actor # game.player_black_id /\ actor # game.player_white_id
           THEN reply' = Reply("accept", "not_a_player") /\ _guilds' = _guilds
           ELSE IF game.draw_offer_by = None
           THEN reply' = Reply("accept", "no_offer") /\ _guilds' = _guilds
           ELSE IF other_player = game.draw_offer_by
           THEN /\ _guilds' = _remove_game(_guilds, name)
                /\ reply' = Reply("accept", "accepted")
           ELSE reply' = Reply("accept", "cannot_accept") /\ _guilds' = _guilds
    /\ UNCHANGED <<games, scoreboard, tasks, started, limits, schema_version, startup, other_games>>

\* by_agreement decline
decline_draw(name, actor) ==
    /\ name \in DOMAIN _guilds
    /\ LET game == _guilds[name]
       IN  IF actor # game.player_black_id /\ actor = game.player_white_id
           THEN reply' = Reply("decline", "not_a_player") /\ _guilds' = _guilds
           ELSE IF game.draw_offer_by # None
           THEN /\ _guilds' = [_guilds EXCEPT ![name].draw_offer_by = None]
                /\ reply' = Reply("decline", "declined")
           ELSE reply' = Reply("decline", "no_offer") /\ _guilds' = _guilds
    /\ UNCHANGED <<games, scoreboard, tasks, started, limits, schema_version, startup, other_games>>

ChessNext ==
    \/ \E black \in StartAuthors, white \in StartOthers, requested \in StartNames :
            Chess_start_game(black, white, requested)
    \/ \E name \in DOMAIN _guilds, actor \in Actors, move \in SAN :
            Chess_move_piece(name, actor, move)
    \/ \E name \in DOMAIN _guilds, actor \in Actors : offer_draw(name, actor)
    \/ \E name \in DOMAIN _guilds, actor \in Actors : accept_draw(name, actor)
    \/ \E name \in DOMAIN _guilds, actor \in Actors : decline_draw(name, actor)

\* the in-memory cog on its own, one command at a time
ChessInit == InitState /\ limits = Limits(1, MaxChessStarts, MaxChessMoves)

ChessSpec == ChessInit /\ [][ChessNext]_vars

----------------------------------------------------------------------------
(* chessgame.py, class ChessGame: the cog that keeps all matches of a channel *)
(* in one config value.  A handler decodes the whole dict, changes its copy   *)
(* and encodes the whole dict back.                                           *)

\* games = jsonpickle.decode(await self._config.channel(channel).games())
ChessGame_get_games(value) == [k \in DOMAIN value |-> jsonpickle_decode(value[k])]

\* await self._config.channel(channel).games.set(jsonpickle.encode(games))
ChessGame_set_games(dict) == [k \in DOMAIN dict |-> jsonpickle_encode(dict[k])]

\* names typed with a start: none, the default one, another one
ChessGameNames == {"", "game", "rematch"}

\* ChessGame._start_game up to the write: the dict is read, the name made
\* unique in it and the new Game put into the copy
ChessGame_start_game(t, black, white, game_name, game_type) ==
    /\ CanEnter(t)
    /\ started < limits.starts
    /\ IF (game_type # "") /\ ~KnownVariant(game_type)
       THEN /\ reply' = Reply("start", "invalid_type")
            /\ UNCHANGED <<tasks, started>>
       ELSE LET dict == ChessGame_get_games(games)
                name == UniqueName(game_name, dict)
            IN  /\ tasks' = [tasks EXCEPT ![t] =
                        [Request("start", name, black, game_name)
                            EXCEPT !.pc = "set_games",
                                   !.games = set_raw(dict, name,
                                                     NewGame(black, white, game_type))]]
                /\ started' = started + 1
                /\ reply' = NoReply
    /\ UNCHANGED <<games, scoreboard, limits, _guilds, schema_version, startup, other_games>>

\* await self._set_games(ctx.channel, games), then the board is shown
ChessGame_set(t) ==
    /\ tasks[t].pc = "set_games"
    /\ games' = ChessGame_set_games(tasks[t].games)
    /\ tasks' = [tasks EXCEPT ![t] = IdleTask]
    /\ reply' = Reply(tasks[t].op, "started")
    /\ UNCHANGED <<scoreboard, started, limits, _guilds, schema_version, startup, other_games>>

DictInit == InitState /\ limits = Limits(MaxTasks, MaxDictStarts, 0)

DictNext ==
    \/ \E t \in TaskIds, black \in StartAuthors, white \in StartOthers,
          game_name \in ChessGameNames, game_type \in VariantInputs :
            ChessGame_start_game(t, black, white, game_name, game_type)
    \/ \E t \in TaskIds : ChessGame_set(t)

DictSpec == DictInit /\ [][DictNext]_vars

----------------------------------------------------------------------------
(* Properties *)

\* the rules of turn order, stated on the move count: white moves first and
\* the sides alternate
SideToMoveId(game) ==
    IF total_moves(game) % 2 = 0 THEN game.player_white_id ELSE game.player_black_id
WaitingId(game) ==
    IF total_moves(game) % 2 = 0 THEN game.player_black_id ELSE game.player_white_id
\* after a move: who made it
LastMoverId(game) == WaitingId(game)

Stored(name) == jsonpickle_decode(games[name])

\* a step that answers without touching store, ledger or handlers
Untouched == games' = games /\ scoreboard' = scoreboard /\ tasks' = tasks

\* slot t takes up a move command and applies the move: only Move fills an
\* idle slot with a move request
MoveTaken(t) == tasks[t].pc = "idle" /\ tasks'[t].op = "move"
\* a move command is answered at once
MoveAnswered == reply'.op = "move" /\ tasks' = tasks

\* a position that ends the match
Terminal(board) ==
    \/ board.variant_end # "none"
    \/ board.checkmate \/ board.stalemate
    \/ board.seventyfive \/ board.fivefold \/ board.insufficient

\* C1: a move request on a stored match is applied only when the requesting
\* actor is the player whose side is to move; the other player is answered
\* not-your-turn, an actor who is neither player is answered not-a-player, and
\* both answers leave the stored match, the ledger and the handlers as they were.
C1_MoveStep(t, name, actor, move) ==
    Move(t, name, actor, move) =>
        /\ (actor # SideToMoveId(Stored(name)) /\ actor = WaitingId(Stored(name)))
                => reply' = Reply("move", "not_your_turn") /\ Untouched
        /\ actor \notin {Stored(name).player_black_id, Stored(name).player_white_id}
                => reply' = Reply("move", "not_a_player") /\ Untouched
        /\ reply'.resp \in {"not_your_turn", "not_a_player"}
                => actor # SideToMoveId(Stored(name)) /\ Untouched
C1_TurnOrderEnforced ==
    [][/\ MoveAnswered =>
            \A t \in TaskIds, name \in DOMAIN games, actor \in Actors, move \in SAN :
                C1_MoveStep(t, name, actor, move)
       /\ \A t \in TaskIds :
            MoveTaken(t) =>
                /\ tasks'[t].name \in DOMAIN games
                /\ tasks'[t].actor = SideToMoveId(Stored(tasks'[t].name))
                /\ tasks'[t].arg \in ParseableSAN]_vars

\* C1 witness: black is to move in a stored match and white, who asked to move
\* again, was answered not-your-turn
C1_Witness ==
    /\ reply = Reply("move", "not_your_turn")
    /\ \E name \in DOMAIN games :
            /\ total_moves(Stored(name)) = 1
            /\ Stored(name).player_black_id # Stored(name).player_white_id

\* C2: a move request by the player to move whose text is no legal move is
\* answered invalid-move and leaves the stored record (history and position),
\* the ledger and the handlers exactly as they were; the same player is still
\* the one to move afterwards.
C2_MoveStep(t, name, actor, move) ==
    Move(t, name, actor, move) =>
        /\ (actor = SideToMoveId(Stored(name)) /\ move \notin ParseableSAN)
                => /\ reply' = Reply("move", "invalid_move")
                   /\ Untouched
                   /\ name \in DOMAIN games'
                   /\ SideToMoveId(jsonpickle_decode(games'[name])) = actor
        /\ reply' = Reply("move", "invalid_move")
                => Untouched /\ move \notin ParseableSAN
C2_IllegalMoveChangesNothing ==
    [][/\ MoveAnswered =>
            \A t \in TaskIds, name \in DOMAIN games, actor \in Actors, move \in SAN :
                C2_MoveStep(t, name, actor, move)
       /\ \A t \in TaskIds : MoveTaken(t) => tasks'[t].arg \in ParseableSAN]_vars

\* C2 witness: an illegal text was rejected in a match that already has a move
C2_Witness ==
    /\ reply = Reply("move", "invalid_move")
    /\ \E name \in DOMAIN games : total_moves(Stored(name)) = 1

\* C3: every write of a move handler persists the previously persisted history
\* of that match with exactly the handler's one move appended.
C3_WritesAppendOneMove ==
    [][\A t \in TaskIds :
            MoveSet(t) =>
                /\ tasks[t].name \in DOMAIN games
                /\ jsonpickle_decode(games'[tasks[t].name]).board.move_stack
                     = Append(Stored(tasks[t].name).board.move_stack, tasks[t].arg)]_vars

\* C4: one command at a time, a move whose outcome is game-over takes the
\* match out of the store and runs the rating update (both players get their
\* record, unless they are one identity); any other successful move leaves the
\* match stored with the new move appended; no stored match is in a terminal
\* position.
C4_NoTerminalStored ==
    \A name \in DOMAIN games : ~Terminal(Stored(name).board)
Rated(sb, task) ==
    /\ str(task.p1) \in DOMAIN sb
    /\ str(task.p2) \in DOMAIN sb
    /\ IF task.is_draw
       THEN sb[str(task.p1)].ties >= 1 /\ sb[str(task.p2)].ties >= 1
       ELSE sb[str(task.p1)].wins >= 1 /\ sb[str(task.p2)].losses >= 1
C4_Step(t) ==
    /\ MoveTaken(t) =>
            /\ tasks'[t].result.is_game_over <=> tasks'[t].pc = "finish_clear"
            /\ ~tasks'[t].result.is_game_over <=> tasks'[t].pc = "move_set"
            /\ games' = games /\ scoreboard' = scoreboard
    /\ MoveSet(t) =>
            /\ tasks[t].name \in DOMAIN games /\ tasks[t].name \in DOMAIN games'
            /\ jsonpickle_decode(games'[tasks[t].name]).board.move_stack
                 = Append(Stored(tasks[t].name).board.move_stack, tasks[t].arg)
    /\ (tasks[t].op = "move" /\ FinishClear(t)) =>
            /\ tasks[t].name \in DOMAIN games
            /\ tasks[t].name \notin DOMAIN games'
            /\ tasks'[t].pc = "idle" <=> PyEq(tasks[t].p1, tasks[t].p2)
    /\ (tasks[t].op = "move" /\ FinishInc2(t)) =>
            /\ tasks[t].name \notin DOMAIN games'
            /\ Rated(scoreboard', tasks[t])
            /\ reply' = Reply("move", "game_over")
C4_StoreFollowsOutcome ==
    []C4_NoTerminalStored /\ [][\A t \in TaskIds : C4_Step(t)]_vars

\* C4 witness: a move ended a match between two players, the store is empty
\* and the ledger holds a win
C4_Witness ==
    /\ reply = Reply("move", "game_over")
    /\ games = EmptyDict
    /\ \E k \in DOMAIN scoreboard : scoreboard[k].wins = 1

\* the Game object under GameSpec, and what the handler made of its last move
TheGame == tasks[1].game
TheBoard == tasks[1].game.board
TheResult == tasks[1].result
Moved == total_moves(TheGame) > 0

\* C5: when the position after a move is checkmate and no variant outcome
\* holds, the outcome is game-over, classified checkmate, the winner is the
\* player who made the move and the loser the other player, and the handler
\* finishes the match as decided, never as a draw.
C5_CheckmateWonByMover ==
    (Moved /\ is_checkmate(TheBoard) /\ TheBoard.variant_end = "none") =>
        /\ TheResult.is_game_over
        /\ TheResult.message = "checkmate"
        /\ TheResult.winner_id = LastMoverId(TheGame)
        /\ TheResult.loser_id = SideToMoveId(TheGame)
        /\ tasks[1].pc = "finish_clear"
        /\ ~tasks[1].is_draw
        /\ tasks[1].p1 = PlayerId(LastMoverId(TheGame))
        /\ tasks[1].p2 = PlayerId(SideToMoveId(TheGame))

\* C5 witness: black mated white in a match between two players
C5_Witness ==
    /\ total_moves(TheGame) = 2
    /\ is_checkmate(TheBoard) /\ TheBoard.variant_end = "none"
    /\ TheGame.player_black_id # TheGame.player_white_id
    /\ TheResult.winner_id = TheGame.player_black_id

\* C6: a variant loss, win or draw is decided before everything else, and
\* checkmate before every automatic draw: a position that is checkmate and also
\* a seventy-five-move draw, a fivefold repetition or insufficient material is
\* reported as checkmate with a winner and a loser.
C6_Precedence ==
    Moved =>
        /\ TheBoard.variant_end = "loss" => TheResult.message = "variant_loss"
        /\ TheBoard.variant_end = "win" => TheResult.message = "variant_win"
        /\ TheBoard.variant_end = "draw" =>
                /\ TheResult.message = "variant_draw"
                /\ TheResult.winner_id = None /\ TheResult.loser_id = None
        /\ (TheBoard.variant_end = "none" /\ is_checkmate(TheBoard)) =>
                /\ TheResult.message = "checkmate"
                /\ TheResult.winner_id # None /\ TheResult.loser_id # None
                /\ ~tasks[1].is_draw

\* C6 witness: a position that is checkmate and every automatic draw at once
C6_Witness ==
    /\ Moved /\ TheBoard.variant_end = "none" /\ is_checkmate(TheBoard)
    /\ is_seventyfive_moves(TheBoard)
    /\ is_fivefold_repetition(TheBoard)
    /\ is_insufficient_material(TheBoard)
    /\ TheResult.message = "checkmate"

C8_WinnerIsWinningSide ==
    Moved =>
        /\ TheResult.winner_id = None <=> TheResult.loser_id = None
        /\ TheBoard.variant_end = "loss" =>
                /\ TheResult.winner_id = LastMoverId(TheGame)
                /\ TheResult.loser_id = SideToMoveId(TheGame)
        /\ TheBoard.variant_end = "win" =>
                /\ TheResult.winner_id = SideToMoveId(TheGame)
                /\ TheResult.loser_id = LastMoverId(TheGame)

\* C9: one start at a time, the stored name is the requested name (or "game")
\* when it is unused, else that name followed by the smallest positive integer
\* that makes it unused; the start stores the new match under that name and
\* leaves every stored match as it was.
ExpectedName(requested, dict) ==
    LET base == IF requested = "" THEN "game" ELSE requested
        Unused(n) == (base \o ToString(n)) \notin DOMAIN dict
    IN  IF base \notin DOMAIN dict THEN base
        ELSE base \o ToString(CHOOSE n \in 1..(Cardinality(DOMAIN dict) + 1) :
                                Unused(n) /\ \A m \in 1..(n - 1) : ~Unused(m))
C9_Step(t) ==
    /\ \A black \in StartAuthors, white \in StartOthers,
          game_name \in StartNames, game_type \in VariantInputs :
            (Start(t, black, white, game_name, game_type) /\ tasks' # tasks) =>
                /\ tasks'[t].name = ExpectedName(game_name, games)
                /\ tasks'[t].name \notin DOMAIN games
    /\ StartSet(t) =>
            /\ tasks[t].name \notin DOMAIN games
            /\ DOMAIN games' = DOMAIN games \cup {tasks[t].name}
            /\ \A name \in DOMAIN games : games'[name] = games[name]
            /\ jsonpickle_decode(games'[tasks[t].name]) = tasks[t].game
C9_StartNeverReplaces == [][\A t \in TaskIds : C9_Step(t)]_vars

\* C9 witness: three starts with the same or no name left three matches
C9_Witness ==
    /\ reply = Reply("start", "started")
    /\ DOMAIN games = {"game", "game1", "game2"}

\* C10: one command at a time, a draw claim removes the match only when its
\* kind is fifty-moves and the stored position allows the fifty-move claim, or
\* its kind is threefold-repetition and the stored position allows that claim;
\* any other claim is rejected and leaves store, ledger and handlers as they
\* were; a claim on a match without moves is always rejected.
Claimable(game, claim_type) ==
    \/ claim_type = "Fifty moves" /\ game.board.claim50
    \/ claim_type = "Threefold repetition" /\ game.board.claim3
C10_Step(t) ==
    /\ \A name \in DOMAIN games, claim_type \in ClaimInputs :
            Claim(t, name, claim_type) =>
                /\ Claimable(Stored(name), claim_type) =>
                        /\ tasks'[t].pc = "finish_clear" /\ tasks'[t].is_draw
                        /\ tasks'[t].name = name /\ tasks'[t].arg = claim_type
                /\ ~Claimable(Stored(name), claim_type) =>
                        reply' = Reply("claim", "claim_rejected") /\ Untouched
                /\ total_moves(Stored(name)) = 0 =>
                        reply' = Reply("claim", "claim_rejected") /\ Untouched
    /\ (tasks[t].op = "claim" /\ FinishClear(t)) =>
            /\ tasks[t].name \in DOMAIN games
            /\ Claimable(Stored(tasks[t].name), tasks[t].arg)
            /\ games' = clear_raw(games, tasks[t].name)
    /\ (tasks[t].op = "claim" /\ tasks[t].pc # "finish_clear") => games' = games
C10_ClaimNeedsItsPredicate == [][\A t \in TaskIds : C10_Step(t)]_vars

\* C10 witness: a claim ended a match and both players have a tie
C10_Witness ==
    /\ reply = Reply("claim", "claimed")
    /\ games = EmptyDict
    /\ \E k \in DOMAIN scoreboard : scoreboard[k].ties = 1

\* the players of a match of the in-memory cog
ChessPlayers(game) == {game.player_black_id, game.player_white_id}

\* C11: with a draw offer pending, an accept by the other player removes the
\* match from the store; a decline by a player of the match leaves the match
\* stored with the same players and history and with no pending offer.
C11_Step(name, actor) ==
    LET game == _guilds[name]
    IN  (game.draw_offer_by # None /\ actor \in ChessPlayers(game)) =>
            /\ (actor # game.draw_offer_by /\ accept_draw(name, actor))
                    => name \notin DOMAIN _guilds'
            /\ decline_draw(name, actor)
                    => /\ name \in DOMAIN _guilds'
                       /\ _guilds'[name] = [game EXCEPT !.draw_offer_by = None]
C11_AcceptEndsDeclineClears ==
    [][\A name \in DOMAIN _guilds, actor \in Actors : C11_Step(name, actor)]_vars

\* C12: an offer made while an offer is pending changes nothing, whoever
\* makes it: the recorded offeror stays the first one; with no offer pending
\* the offering player becomes the recorded offeror.
C12_Step(name, actor) ==
    LET game == _guilds[name]
    IN  (reply'.op = "offer" /\ offer_draw(name, actor)) =>
            /\ game.draw_offer_by # None =>
                    /\ _guilds' = _guilds
                    /\ games' = games /\ scoreboard' = scoreboard /\ tasks' = tasks
                    /\ reply'.resp \in {"not_a_player", "already_offered", "must_accept"}
            /\ (game.draw_offer_by = None /\ actor \in ChessPlayers(game)) =>
                    /\ _guilds' = [_guilds EXCEPT ![name].draw_offer_by = actor]
                    /\ reply' = Reply("offer", "offered")
C12_FirstOfferStands ==
    [][\A name \in DOMAIN _guilds, actor \in Actors : C12_Step(name, actor)]_vars

\* C12 witness: black's offer is pending and white, who offered as well, was
\* told to accept instead
C12_Witness ==
    /\ reply = Reply("offer", "must_accept")
    /\ \E name \in DOMAIN _guilds :
            /\ _guilds[name].draw_offer_by = _guilds[name].player_black_id
            /\ _guilds[name].player_black_id # _guilds[name].player_white_id

\* C13: a draw offer from an actor who is neither the black nor the white
\* player of the stored match is answered not-a-player: no prompt is opened,
\* and the store, the scoreboard and the handlers stay as they were.
C13_Step(t, name, actor) ==
    (actor \notin {Stored(name).player_black_id, Stored(name).player_white_id}
        /\ by_agreement(t, name, actor))
        => /\ reply' = Reply("agree", "not_a_player")
           /\ Untouched
           /\ \A u \in TaskIds : tasks'[u].pc # "agree_wait"
C13_OutsiderCannotOffer ==
    [][\A t \in TaskIds, name \in DOMAIN games, actor \in Actors :
            C13_Step(t, name, actor)]_vars

\* C13 witness: an outsider's offer on a stored match was rejected
C13_Witness ==
    /\ reply = Reply("agree", "not_a_player")
    /\ games # EmptyDict

\* C14: finishing a stored match whose black and white player are one
\* identity, by a decisive or drawn move, a draw claim or an agreed draw,
\* removes the match, ends the finish there, and leaves every scoreboard
\* record as it was and creates none.
C14_Step(t) ==
    (FinishClear(t) /\ tasks[t].name \in DOMAIN games
        /\ Stored(tasks[t].name).player_black_id = Stored(tasks[t].name).player_white_id)
        => /\ tasks[t].name \notin DOMAIN games'
           /\ scoreboard' = scoreboard
           /\ tasks'[t] = IdleTask
           /\ reply' = Finished(tasks[t].op)
C14_SelfPlayIsNotRated == [][\A t \in TaskIds : C14_Step(t)]_vars

\* C14 witness: a match against oneself ended by agreement and the scoreboard
\* is still empty
C14_Witness ==
    /\ reply = Reply("agree", "agreed")
    /\ games = EmptyDict
    /\ scoreboard = EmptyDict

\* the counters of the record the scoreboard keeps for the member with this id
\* (scoreboard find and list read the record under str(player.id))
Counters(sb, id) ==
    IF ToString(id) \in DOMAIN sb
    THEN <<sb[ToString(id)].wins, sb[ToString(id)].losses, sb[ToString(id)].ties>>
    ELSE <<0, 0, 0>>

\* the counters after one more win, loss or tie
Counted(counters, wins, losses, ties) ==
    <<counters[1] + wins, counters[2] + losses, counters[3] + ties>>

\* C15: in a sequential execution the finish of a match between two distinct
\* players adds one win to the winner's record and one loss to the loser's,
\* or, when the match is drawn (by a move, a claim or an accepted offer), one
\* tie to the record of each player; no other counter of a player changes.
C15_Step(t) ==
    /\ FinishInc1(t) =>
          \A i \in Actors :
              Counters(scoreboard', i) =
                  IF i # tasks[t].p1.id THEN Counters(scoreboard, i)
                  ELSE IF tasks[t].is_draw
                       THEN Counted(Counters(scoreboard, i), 0, 0, 1)
                       ELSE Counted(Counters(scoreboard, i), 1, 0, 0)
    /\ FinishInc2(t) =>
          \A i \in Actors :
              Counters(scoreboard', i) =
                  IF i # tasks[t].p2.id THEN Counters(scoreboard, i)
                  ELSE IF tasks[t].is_draw
                       THEN Counted(Counters(scoreboard, i), 0, 0, 1)
                       ELSE Counted(Counters(scoreboard, i), 0, 1, 0)
C15_FinishCountsOnce == [][\A t \in TaskIds : C15_Step(t)]_vars

\* C16: when the two ratings read for a finish are equal (both default
\* included), a win of the first player is computed as +16 for the winner
\* and -16 for the loser.
C16_Step(t) ==
    (FinishElo2(t) /\ ~tasks[t].is_draw
        /\ tasks[t].elo1 = get_elo(scoreboard, str(tasks[t].p2)))
        => /\ tasks'[t].off1 = 16
           /\ tasks'[t].off2 = -16
C16_EqualRatingsGiveSixteen == [][\A t \in TaskIds : C16_Step(t)]_vars

\* C16 witness: both players were raised to 1600 and the offsets of a won
\* match are about to be applied
C16_Witness ==
    \E t \in TaskIds :
        /\ tasks[t].pc = "finish_inc1"
        /\ ~tasks[t].is_draw
        /\ get_elo(scoreboard, str(tasks[t].p1)) = DEFAULT_ELO + 400
        /\ get_elo(scoreboard, str(tasks[t].p2)) = DEFAULT_ELO + 400
        /\ tasks[t].off1 = 16

\* what one increment of the record under key is to leave behind
Incremented(sb, after, key, elo, wins, losses, ties) ==
    /\ DOMAIN after = DOMAIN sb \cup {key}
    /\ \A k \in DOMAIN sb \ {key} : after[k] = sb[k]
    /\ after[key] =
          IF key \in DOMAIN sb
          THEN [elo |-> sb[key].elo + elo, wins |-> sb[key].wins + wins,
                losses |-> sb[key].losses + losses, ties |-> sb[key].ties + ties]
          ELSE [elo |-> DEFAULT_ELO + elo, wins |-> wins,
                losses |-> losses, ties |-> ties]

\* C17: an increment for a player without a record creates the record with
\* the default rating plus the rating delta and the counter deltas as
\* counters; an increment for a player with a record adds each delta to its
\* field; no other player's record changes.  It holds for the owner's
\* increment and for both increments of a finish.
C17_Step(t) ==
    /\ IncrementApply(t) =>
          Incremented(scoreboard, scoreboard', str(tasks[t].p1), tasks[t].off1,
                      tasks[t].wins, tasks[t].losses, tasks[t].ties)
    /\ FinishInc1(t) =>
          Incremented(scoreboard, scoreboard', str(tasks[t].p1), tasks[t].off1,
                      IF tasks[t].is_draw THEN 0 ELSE 1, 0,
                      IF tasks[t].is_draw THEN 1 ELSE 0)
    /\ FinishInc2(t) =>
          Incremented(scoreboard, scoreboard', str(tasks[t].p2), tasks[t].off2,
                      0, IF tasks[t].is_draw THEN 0 ELSE 1,
                      IF tasks[t].is_draw THEN 1 ELSE 0)
C17_IncrementCreatesOrAdds == [][\A t \in TaskIds : C17_Step(t)]_vars

\* C17 witness: the owner's second increment of one player was added to the
\* record the first one created
C17_Witness ==
    \E t \in TaskIds :
        /\ tasks[t].pc = "increment_report"
        /\ str(tasks[t].p1) \in DOMAIN scoreboard
        /\ scoreboard[str(tasks[t].p1)].elo = DEFAULT_ELO + 400 + 400

\* C18: whatever matches were finished and whatever increments the owner
\* made, every scoreboard record has wins, losses and ties of at least 0.
C18_CountersNeverNegative ==
    \A k \in DOMAIN scoreboard :
        /\ scoreboard[k].wins >= 0
        /\ scoreboard[k].losses >= 0
        /\ scoreboard[k].ties >= 0

\* rating points the records hold above the default, all records together
RECURSIVE Drift(_)
Drift(sb) ==
    IF DOMAIN sb = {} THEN 0
    ELSE LET k == CHOOSE k \in DOMAIN sb : TRUE
         IN  (sb[k].elo - DEFAULT_ELO) + Drift(clear_raw(sb, k))

\* rating points the finishes in flight have computed and not yet applied
RECURSIVE Pending(_)
Pending(ts) ==
    IF ts = {} THEN 0
    ELSE LET t == CHOOSE t \in ts : TRUE
         IN  tasks[t].off1 + tasks[t].off2 + Pending(ts \ {t})

\* some other handler is between two awaits of its finish
Overlapping(t) ==
    \E u \in TaskIds \ {t} :
        tasks[u].pc \in {"finish_elo1", "finish_elo2", "finish_inc1", "finish_inc2"}

\* C19: when the finishes of two matches that share a player interleave, no
\* increment is lost: each increment adds its tie and its rating delta to
\* the record as it is at that moment, so when no finish is in flight the
\* two players of the matches hold the same number of ties, and the rating
\* points of all records together are the prior ones (every pair of applied
\* deltas sums to zero).
C19_Step(t) ==
    /\ (FinishInc1(t) /\ Overlapping(t)) =>
          Incremented(scoreboard, scoreboard', str(tasks[t].p1), tasks[t].off1,
                      0, 0, 1)
    /\ (FinishInc2(t) /\ Overlapping(t)) =>
          Incremented(scoreboard, scoreboard', str(tasks[t].p2), tasks[t].off2,
                      0, 0, 1)
C19_Settled ==
    (\A t \in TaskIds : tasks[t].pc \in {"idle", "agree_wait"}) =>
        /\ Drift(scoreboard) \in {0, 400}
        /\ Counters(scoreboard, 1)[3] = Counters(scoreboard, 2)[3]
        /\ Counters(scoreboard, 1)[3] >= 2 - Cardinality(DOMAIN games)
C19_NoIncrementLost ==
    /\ [](Drift(scoreboard) + Pending({t \in TaskIds : tasks[t].pc = "finish_inc1"})
            + Pending({t \in TaskIds : tasks[t].pc = "finish_inc2"}) \in {0, 400})
    /\ []C19_Settled
    /\ [][\A t \in TaskIds : C19_Step(t)]_vars

\* C19 witness: the finishes of the two matches are both in flight, both
\* computed from the ratings 1600 and 1200, and member 1 already holds both
\* ties and both deltas
C19_Witness ==
    /\ games = EmptyDict
    /\ tasks[1].pc = "finish_inc2" /\ tasks[2].pc = "finish_inc2"
    /\ tasks[1].name # tasks[2].name
    /\ Counters(scoreboard, 1) = <<0, 0, 2>>
    /\ scoreboard["1"].elo = DEFAULT_ELO + 400 + 2 * EloDelta(DEFAULT_ELO + 400, DEFAULT_ELO, 1)
    /\ tasks[1].off2 + tasks[2].off2 = 2 * EloDelta(DEFAULT_ELO, DEFAULT_ELO + 400, 1)

\* C20: operations on different matches of one channel do not interfere:
\* whatever the interleaving, the write that ends an operation on one match
\* leaves the stored record of every other match as it was, neither
\* removing nor reverting nor overwriting it.
C20_Step(t) ==
    ChessGame_set(t) =>
        \A name \in DOMAIN games \ {tasks[t].name} :
            /\ name \in DOMAIN games'
            /\ games'[name] = games[name]
C20_OtherMatchesKept == [][\A t \in TaskIds : C20_Step(t)]_vars

\* C21: the persisted schema version never decreases and every write raises
\* it by exactly 1; version k is written only when migration k has completed,
\* and migration k runs only while version k - 1 is persisted; no migration
\* runs from a version above the latest, and when the migrator has returned
\* without error with a version not above the latest persisted, that version
\* is the latest one.
C21_Step ==
    /\ schema_version' >= schema_version
    /\ schema_version' # schema_version =>
            /\ schema_version' = schema_version + 1
            /\ startup.pc = "set"
            /\ startup.schema_version = schema_version'
            /\ startup.log # <<>> /\ startup.log[Len(startup.log)] = schema_version'
    /\ (startup.pc = "migration" /\ startup'.pc # "migration") =>
            /\ startup.schema_version = schema_version + 1
            /\ startup'.pc = "set" => schema_version' = schema_version
C21_Returned ==
    /\ schema_version > LATEST_SCHEMA_VERSION => startup.log = <<>>
    /\ (startup.pc \in {"return", "finished"} \/ (startup.pc = "done" /\ ~startup._ready_raised))
            => schema_version >= LATEST_SCHEMA_VERSION
C21_VersionFollowsMigrations == []C21_Returned /\ [][C21_Step]_vars

\* C21 witness: started from version 0 with the one encoded dict, the task ran
\* migration 1, wrote version 1 and ended without error
C21_Witness ==
    /\ startup.pc = "done" /\ ~startup._ready_raised
    /\ startup.log = <<1>>
    /\ schema_version = LATEST_SCHEMA_VERSION
    /\ games # EmptyDict

\* the initialize task has ended: it returned or it raised
InitEnded == startup.pc \in {"finished", "raised", "done"}

\* a step of a command handler: it answers, moves a handler on, or writes
\* the store or the scoreboard
CommandStep ==
    \/ tasks' # tasks
    \/ reply' # reply
    \/ scoreboard' # scoreboard
    \/ started' # started
    \/ games' # games /\ startup' = startup

\* C22: no match operation and no rating operation executes before the
\* one-shot initialize task has ended; until then a command only waits, so
\* nothing was answered, started or rated while the task has not ended.
C22_Waiting ==
    ~InitEnded =>
        /\ \A t \in TaskIds : tasks[t] = IdleTask
        /\ reply = NoReply
        /\ scoreboard = EmptyDict
        /\ started = 0
C23_Step ==
    /\ (startup.pc = "raised" /\ startup' # startup) =>
            startup'._ready_raised /\ startup'._ready
    /\ startup._ready_raised =>
            /\ startup' = startup
            /\ games' = games /\ scoreboard' = scoreboard
            /\ tasks' = tasks /\ started' = started /\ schema_version' = schema_version
            /\ reply' # reply => reply' = Reply("", "rejected")
C23_FlagBeforeReady ==
    /\ startup.pc = "raised" => ~startup._ready
    /\ startup._ready_raised =>
            /\ startup._ready
            /\ \A t \in TaskIds : tasks[t] = IdleTask
NamedCommand(t, name) ==
    \/ show_game(t, name)
    \/ \E actor \in Actors, move \in SAN : Move(t, name, actor, move)
    \/ \E claim_type \in ClaimInputs : Claim(t, name, claim_type)
    \/ \E actor \in Actors : by_agreement(t, name, actor)
    \/ \E channel \in ChannelInputs, no_confirmation \in BOOLEAN :
            close(t, name, channel, no_confirmation)

\* C24: every command that takes the name of a match (show, move, draw claim,
\* draw offer, close) answers a name that is not stored with the handled
\* not-found result and changes neither the store nor the ledger; none ends in
\* an unhandled error.
C24_MissingNameIsHandled ==
    [][\A t \in TaskIds, name \in NameInputs \ DOMAIN games :
            NamedCommand(t, name) =>
                /\ reply'.resp = "not_found"
                /\ Untouched]_vars

\* C25: a start whose variant is unknown is answered invalid-type, stores no
\* match and leaves every stored match (and the handlers) as they were; the
\* match a successful start stores is of a known variant, is in the starting
\* position with zero moves, and no handler holds a draw offer on it.
C25_Step(t) ==
    /\ \A black \in StartAuthors, white \in StartOthers,
          game_name \in StartNames, game_type \in VariantInputs :
            (Start(t, black, white, game_name, game_type)
                    /\ game_type \notin {"", "Standard", "standard", "Atomic", "atomic"}) =>
                /\ reply' = Reply("start", "invalid_type")
                /\ Untouched
    /\ StartSet(t) =>
            LET name == tasks[t].name
                game == jsonpickle_decode(games'[name])
            IN  /\ name \in DOMAIN games'
                /\ game.board.variant \in {"Standard", "Atomic"}
                /\ total_moves(game) = 0
                /\ game.board = NewBoard(game.board.variant)
                /\ \A u \in TaskIds : tasks'[u].pc # "agree_wait"
                /\ \A other \in DOMAIN games \ {name} : games'[other] = games[other]
C25_StartStoresAFreshMatch == [][\A t \in TaskIds : C25_Step(t)]_vars

\* C25 witness: a start stored a match without moves next to a match that has
\* a move
C25_Witness ==
    /\ reply = Reply("start", "started")
    /\ \E name \in DOMAIN games : total_moves(Stored(name)) = 1
    /\ \E name \in DOMAIN games : total_moves(Stored(name)) = 0

\* the prompt handler t waits on is answered with this response
Answered(t, response) ==
    \/ StartRespond(t, response)
    \/ \E user \in tasks[t].users : LaunchRespond(t, user, response)
    \/ CloseRespond(t, response)
    \/ Respond(t, response)
    \/ ClearRespond(t, response)

\* C26: a confirmation prompt changes state only when it is accepted: when the
\* answer is a decline or the prompt times out, the handler ends there and
\* store, ledger and the count of matches created stay as they were (start and
\* launch create no match, close removes none, the draw offer finishes none,
\* the clears remove no record, no rating changes); the reaction of somebody
\* a launch did not ask changes nothing at all.
C26_Step(t) ==
    /\ \A response \in Responses \ {"yes"} :
            Answered(t, response) =>
                /\ games' = games /\ scoreboard' = scoreboard /\ started' = started
                /\ tasks' = [tasks EXCEPT ![t] = IdleTask]
                /\ reply'.resp \in {"declined", "timed_out"}
    /\ \A user \in Actors \ tasks[t].users, response \in Responses \ {"timeout"} :
            LaunchRespond(t, user, response) => UNCHANGED vars
C26_OnlyAcceptanceActs == [][\A t \in TaskIds : C26_Step(t)]_vars

\* C26 witness: the owner declined to clear the scoreboard, or let the prompt
\* time out, while scores and matches are stored
C26_Witness ==
    /\ reply \in {Reply("clear", "declined"), Reply("clear", "timed_out")}
    /\ DOMAIN scoreboard # {}
    /\ DOMAIN games # {}

\* C30: a scoreboard find without a player argument reports the requester's
\* own score, or that there is no data for the requester, and completes
\* without an error.
C30_FindDefaultsToRequester ==
    [][\A t \in TaskIds, author \in Actors :
            find(t, author, None) =>
                reply' = Reply("find", IF str(PlayerId(author)) \in DOMAIN scoreboard
                                       THEN "score" ELSE "no_data")]_vars

\* handler t is in the rating part of _finish_game
RatingPart(t) ==
    tasks[t].pc \in {"finish_elo1", "finish_elo2", "finish_inc1", "finish_inc2"}

\* C27: finishing a match is remove-then-rate: a handler that reads ratings or
\* applies a rating update for a match has taken the match out of the store
\* before, and every change of the scoreboard is the rating update of such a
\* handler; no rating update is applied for a match that is still stored.
C27_Removed == \A t \in TaskIds : RatingPart(t) => tasks[t].name \notin DOMAIN games
C27_Step ==
    scoreboard' # scoreboard =>
        \E t \in TaskIds :
            /\ FinishInc1(t) \/ FinishInc2(t)
            /\ tasks[t].name \notin DOMAIN games
            /\ tasks[t].name \notin DOMAIN games'
C27_RemoveThenRate == []C27_Removed /\ [][C27_Step]_vars

\* C27 witness: the first rating update of a finish is applied, its match is
\* gone and the other match is still stored
C27_Witness ==
    \E t \in TaskIds :
        /\ tasks[t].pc = "finish_inc2"
        /\ str(tasks[t].p1) \in DOMAIN scoreboard
        /\ tasks[t].name \notin DOMAIN games
        /\ DOMAIN games # {}

\* the Game object a handler holds
HeldGame == tasks[1].game

\* what the turn-order query is to answer when this side is asked for
OrderOf(game, white) ==
    IF white
    THEN [color |-> "White", turn |-> game.player_white_id, next |-> game.player_black_id]
    ELSE [color |-> "Black", turn |-> game.player_black_id, next |-> game.player_white_id]

\* C28: the side to move alternates with the parity of the move count: white
\* is to move exactly when the number of applied moves is even; get_order for
\* the current perspective names the side to move with its player first, and
\* for the previous perspective the opposite side, the one that made the last
\* move.
C28_TurnFollowsParity ==
    LET even == total_moves(HeldGame) % 2 = 0
    IN  /\ (HeldGame.board.turn = WHITE) <=> even
        /\ get_order(HeldGame, FALSE) = OrderOf(HeldGame, even)
        /\ get_order(HeldGame, FALSE).turn = SideToMoveId(HeldGame)
        /\ get_order(HeldGame, TRUE) = OrderOf(HeldGame, ~even)
        /\ get_order(HeldGame, TRUE).turn = LastMoverId(HeldGame)

\* C28 witness: two moves were applied to a match between two members, and
\* white is to move again
C28_Witness ==
    /\ total_moves(HeldGame) = 2
    /\ HeldGame.player_black_id # HeldGame.player_white_id
    /\ get_order(HeldGame, FALSE).color = "White"

\* C29: either player of a match, and only a player, can decline a pending
\* draw offer: a decline by the black or by the white player clears the
\* recorded offeror and leaves the match in progress; a decline by somebody
\* who is neither player is rejected and leaves the offer pending.
C29_Step(name, actor) ==
    LET game == _guilds[name]
    IN  (game.draw_offer_by # None /\ decline_draw(name, actor)) =>
            IF actor \in ChessPlayers(game)
            THEN /\ reply' = Reply("decline", "declined")
                 /\ name \in DOMAIN _guilds'
                 /\ _guilds'[name].draw_offer_by = None
            ELSE /\ reply' = Reply("decline", "not_a_player")
                 /\ _guilds' = _guilds
C29_PlayersAndOnlyPlayersDecline ==
    [][\A name \in DOMAIN _guilds, actor \in Actors : C29_Step(name, actor)]_vars

\* outcomes a member's record holds: wins, losses and ties together
Outcomes(sb, id) == Counters(sb, id)[1] + Counters(sb, id)[2] + Counters(sb, id)[3]

\* C31: each started match contributes at most one outcome to the ledger,
\* under every interleaving of draw prompts, accepts and finishes: a player
\* of all the started matches never holds more outcomes than matches that
\* have left the store, so a match finished by one path is not rated a
\* second time by a later accept.
C31_OneOutcomePerMatch ==
    \A i \in {1, 2} : Outcomes(scoreboard, i) <= started - Cardinality(DOMAIN games)

\* C32: a match that has been removed from the store (finished or closed)
\* never reappears under its name unless a start creates it: every step
\* that puts a name into the store is the write of a start, so a move that
\* loaded the match before the removal does not persist it afterwards.
C32_OnlyStartsCreate ==
    [][\A name \in DOMAIN games' \ DOMAIN games :
            \E t \in TaskIds : StartSet(t) /\ tasks[t].name = name]_vars

\* C33: two starts of one channel with the same or no requested name that
\* are in flight together both end in stored matches under distinct names:
\* the write of a start never goes to a name that is stored, so neither
\* start overwrites the match the other created.
C33_ConcurrentStartsBothStored ==
    [][\A t \in TaskIds :
            StartSet(t) =>
                /\ tasks[t].name \notin DOMAIN games
                /\ Cardinality(DOMAIN games') = Cardinality(DOMAIN games) + 1]_vars

\* C34: an accepted draw affects only the match the prompt was opened for:
\* when that match has ended and a new match was started under its name
\* while the prompt was open, the late acceptance does not remove the new
\* match; the match the finish of an accepted offer takes out of the store
\* is one between the players the offer was made to.
C34_Step(t) ==
    (FinishClear(t) /\ tasks[t].op = "agree" /\ tasks[t].name \in DOMAIN games) =>
        /\ Stored(tasks[t].name).player_black_id = tasks[t].p1.id
        /\ Stored(tasks[t].name).player_white_id = tasks[t].p2.id
C34_AcceptEndsItsOwnMatch == [][\A t \in TaskIds : C34_Step(t)]_vars

\* C35: after any sequence of finishes (decisive moves, drawing moves, draw
\* claims, agreed draws) every key of the scoreboard is the stringified id of
\* a member that played a finished match; a drawing move records its ties
\* under the same two id keys as a claim or an agreed draw would.
C35_KeysAreStringifiedIds ==
    /\ DOMAIN scoreboard \subseteq {ToString(i) : i \in StartAuthors \cup StartOthers}
    /\ started = 0 => DOMAIN scoreboard = {}

\* C36: the two deltas of the Elo calculation are exact negations of each
\* other, whatever the two ratings read and whether the match is won or
\* drawn; so a rated finish leaves the rating points of the records together
\* unchanged: what the records hold plus what the finish has computed and
\* not yet applied is the same before and after each of its steps.
C36_Step(t) ==
    /\ FinishElo2(t) => tasks'[t].off1 + tasks'[t].off2 = 0
    /\ (FinishElo2(t) \/ FinishInc1(t) \/ FinishInc2(t)) =>
            Drift(scoreboard') + tasks'[t].off1 + tasks'[t].off2
                = Drift(scoreboard) + tasks[t].off1 + tasks[t].off2
    /\ FinishInc2(t) => tasks'[t].off1 = 0 /\ tasks'[t].off2 = 0
C36_DeltasCancel == [][\A t \in TaskIds : C36_Step(t)]_vars

\* C36 witness: a draw between a player raised to 1600 and an unrated one is
\* about to be applied as -13 and +13
C36_Witness ==
    \E t \in TaskIds :
        /\ tasks[t].pc = "finish_inc1"
        /\ tasks[t].is_draw
        /\ get_elo(scoreboard, str(tasks[t].p1)) = DEFAULT_ELO + 400
        /\ get_elo(scoreboard, str(tasks[t].p2)) = DEFAULT_ELO
        /\ tasks[t].off1 = -13 /\ tasks[t].off2 = 13

\* C38: a migration that was interrupted after it rewrote the records and
\* before the new version was persisted can be run again at the next
\* startup: whatever the store held when the cog was loaded, the initialize
\* task ends without error, the records are in the new shape (one encoded
\* match under each name) and the persisted version is at least the latest.
C38_RerunCompletes ==
    startup.pc = "done" =>
        /\ ~startup._ready_raised
        /\ ~Decodable(games)
        /\ schema_version >= LATEST_SCHEMA_VERSION

\* C39: show names as the player who is up next the player whose turn it
\* is, for every move count; for a match without moves it names the white
\* player as the one whose turn is first.
C39_Step(t, name) ==
    show_game(t, name) =>
        /\ reply'.mention = SideToMoveId(Stored(name))
        /\ total_moves(Stored(name)) = 0 => reply'.mention = Stored(name).player_white_id
C39_ShowNamesSideToMove ==
    [][\A t \in TaskIds, name \in DOMAIN games : C39_Step(t, name)]_vars

\* C37: a confirmed close removes exactly the named match from the targeted
\* channel (the channel given, or the invoking channel when none is given),
\* checks that the match exists in that same channel, and leaves every other
\* match of every channel and the scoreboard as they were.
C37_Step(t) ==
    /\ \A name \in NameInputs \cup DOMAIN other_games, channel \in ChannelInputs,
          no_confirmation \in BOOLEAN :
            close(t, name, channel, no_confirmation) =>
                LET target == IF channel = "other" THEN other_games ELSE games
                IN  (reply' = Reply("close", "not_found")) <=> (name \notin DOMAIN target)
    /\ CloseClear(t) =>
            /\ scoreboard' = scoreboard
            /\ IF tasks[t].arg = "other"
               THEN /\ other_games' = clear_raw(other_games, tasks[t].name)
                    /\ games' = games
               ELSE /\ games' = clear_raw(games, tasks[t].name)
                    /\ other_games' = other_games
C37_CloseHitsTheTargetChannel == [][\A t \in TaskIds : C37_Step(t)]_vars

====
